---------------------------- MODULE Spec2Model ----------------------------
(***************************************************************************)
(* A model of the lazy entity / cache layer of ZabbixObjects               *)
(* (src/Zabbix.py): entities wrap a mutable dict of fields, hydrate it on  *)
(* demand with a scoped remote "get", and write through on assignment.     *)
(*                                                                         *)
(* Python values are written as their repr: "None", "''", "'a'", "'1'"     *)
(* are None and three strings, "0" and "1" are the ints 0 and 1.  An       *)
(* optional collection is a set: {} is None, {x} is the collection x.      *)
(* A method is an operator from a machine state s (the remote records, the *)
(* objects' dicts, the calls and log records of the running operation) to  *)
(* an outcome [s, exc, ret, ref]: the state it leaves, the exception that  *)
(* leaves it ("" when it returns), the value and the entity it returns.    *)
(***************************************************************************)
EXTENDS Integers, Sequences, FiniteSets, TLC

VARIABLES
    logLevel,     \* threshold of the process's logging configuration
    zbx,          \* the records held by the remote Zabbix server
    z_host,       \* ZabbixHost._z_host
    _macros,      \* ZabbixHost._macros: references to macro dicts
    _interfaces,  \* ZabbixHost._interfaces: references to interface dicts
    z_macro,      \* heap of macro dicts (ZabbixMacro._z_macro), by reference
    z_interface,  \* heap of interface dicts (ZabbixInterface._z_interface)
    _vip,         \* ZabbixHost._vip
    _groups,      \* ZabbixHost._groups: {} is None, {l} the list l of groups
    z_trigger,    \* ZabbixTrigger._z_trigger
    z_event,      \* ZabbixEvent._z_event
    pc,           \* the statement a setter that runs step by step is at, or ""
    op,           \* the last operation: arguments, remote calls, outcome
    steps         \* number of operations performed

vars == <<logLevel, zbx, z_host, _macros, _interfaces, z_macro, z_interface,
          _vip, _groups, z_trigger, z_event, pc, op, steps>>

-----------------------------------------------------------------------------
(* Bounds *)

\* Operations per behaviour.
MaxOps == 2

\* Macros the remote host starts with, at most.
MaxMacros == 2

-----------------------------------------------------------------------------
(* Python values *)

None == "None"

\* bool(v) of a scalar
Truthy(v) == v \notin {"None", "''", "0"}

\* str(v): the repr of the string str() returns
PyStr(v) ==
    CASE v = "0" -> "'0'"
      [] v = "1" -> "'1'"
      [] v = "None" -> "'None'"
      [] OTHER -> v

\* int(v): [exc, ret]
PyInt(v) ==
    CASE v \in {"0", "'0'"} -> [exc |-> "", ret |-> "0"]
      [] v \in {"1", "'1'"} -> [exc |-> "", ret |-> "1"]
      [] v \in {"101", "'101'"} -> [exc |-> "", ret |-> "101"]
      [] v \in {"2", "'2'"} -> [exc |-> "", ret |-> "2"]
      [] v \in {"5", "'5'"} -> [exc |-> "", ret |-> "5"]
      [] v \in {"6", "'6'"} -> [exc |-> "", ret |-> "6"]
      [] v \in {"7", "'7'"} -> [exc |-> "", ret |-> "7"]
      [] v \in {"8", "'8'"} -> [exc |-> "", ret |-> "8"]
      [] v \in {"9", "'9'"} -> [exc |-> "", ret |-> "9"]
      [] v = "None" -> [exc |-> "TypeError", ret |-> None]
      [] OTHER -> [exc |-> "ValueError", ret |-> None]

\* The JSON the server stores and returns for a value sent to it: all strings.
Wire(v) == PyStr(v)

\* dict.update(rec): the fields of rec replace or extend those of d.
DictUpdate(d, rec) ==
    [f \in DOMAIN d \cup DOMAIN rec |-> IF f \in DOMAIN rec THEN rec[f] ELSE d[f]]

-----------------------------------------------------------------------------
(* The remote session *)

GetMethods == {"host.get", "usermacro.get", "hostinterface.get",
               "trigger.get", "event.get", "problem.get", "hostgroup.get"}
WriteMethods == {"host.update", "usermacro.update", "usermacro.create",
                 "hostinterface.update", "host.delete",
                 "trigger.adddependencies", "trigger.deleteDependencies",
                 "event.acknowledge"}
Methods == GetMethods \cup WriteMethods

\* What the remote session does with the calls of one operation: "ok", "fail"
\* (it raises ZabbixAPIException) or, for a get, "empty" (no record matches).
\* Plans(ms): the plans under which only the methods ms may go wrong.
Plans(ms) ==
    {[m \in Methods |-> IF m \in DOMAIN g THEN g[m]
                        ELSE IF m \in DOMAIN w THEN w[m] ELSE "ok"] :
        g \in [ms \cap GetMethods -> {"ok", "fail", "empty"}],
        w \in [ms \cap WriteMethods -> {"ok", "fail"}]}

Ret(s, v) == [s |-> s, exc |-> "", ret |-> v, ref |-> {}]
RetRef(s, r) == [s |-> s, exc |-> "", ret |-> None, ref |-> r]
Raise(s, e) == [s |-> s, exc |-> e, ret |-> None, ref |-> {}]
\* the records a remote get returns
Rows(s, rows) == [s |-> s, exc |-> "", ret |-> None, ref |-> {}, rows |-> rows]

Called(s, m) == [s EXCEPT !.calls = Append(@, m)]
Logged(s, level, msg) == [s EXCEPT !.logs = Append(@, <<level, msg>>)]

HostId == "'101'"

\* host.get(hostids=101, output=..., select...=extend): the calls of one
\* operation are recorded; the record returned depends on what is selected.
\* Macro and interface records are parsed into fresh dicts on the heap.
host_get(s, select, plan) ==
    LET c == Called(s, "host.get")
        nm == Len(c.z_macro)
        ni == Len(c.z_interface)
    IN  CASE plan["host.get"] = "fail" -> Raise(c, "ZabbixAPIException")
          [] plan["host.get"] = "empty" \/ c.zbx.hosts = <<>> -> Rows(c, <<>>)
          [] select = "extend" ->
                Rows(c, <<c.zbx.host>>)
          [] select = "macros" ->
                Rows([c EXCEPT !.z_macro = @ \o c.zbx.macros],
                     <<[hostid |-> HostId,
                        macros |-> {[i \in 1..Len(c.zbx.macros) |-> nm + i]}]>>)
          [] select = "interfaces" ->
                Rows([c EXCEPT !.z_interface = @ \o c.zbx.interfaces],
                     <<[hostid |-> HostId,
                        interfaces |-> {[i \in 1..Len(c.zbx.interfaces) |-> ni + i]}]>>)
          [] select = "inventory" ->
                Rows(c, <<[hostid |-> HostId,
                           inventory |-> {DictUpdate(c.zbx.inventory,
                                [hostid |-> HostId, inventory_mode |-> "'0'"])}]>>)

-----------------------------------------------------------------------------
(* The error-containment decorator *)

\* A wrapper that logs and raises again (a bare "raise" after log.error): the
\* decorator as it would be without containment.
zapi_exception_reraise(log_message, out) ==
    CASE out.exc = "ZabbixAPIException" ->
            Raise(Logged(out.s, "ERROR", log_message), "ZabbixAPIException")
      [] out.exc = "IndexError" -> Raise(out.s, "AttributeError")
      [] OTHER -> out

\* zapi_exception(log_message)(func): the outcome of func as the wrapper hands
\* it on.  A ZabbixAPIException is logged with its data and None is returned.
\* An IndexError is caught too, but has no attribute "data": evaluating e.data
\* raises AttributeError out of the handler.
zapi_exception(log_message, out) ==
    CASE out.exc = "ZabbixAPIException" ->
            Ret(Logged(out.s, "ERROR", log_message), None)
      [] out.exc = "IndexError" -> Raise(out.s, "AttributeError")
      [] OTHER -> out

-----------------------------------------------------------------------------
(* ZabbixHost *)

\* A _get that keeps the record fetched as the cache (self._z_host = z_host
\* where the code calls self._z_host.update(z_host)): the fields the record
\* lacks are lost.
ZabbixHost_get_replacing(s, select, plan) ==
    LET r == host_get(s, select, plan)
    IN  zapi_exception("host data get failed",
            IF r.exc # "" THEN r
            ELSE IF r.rows = <<>> THEN Raise(r.s, "IndexError")
            ELSE Ret([r.s EXCEPT !.z_host =
                        [f \in DOMAIN @ |->
                            IF f \in DOMAIN r.rows[1] THEN r.rows[1][f]
                            ELSE IF f \in {"inventory", "macros", "interfaces", "groups"}
                                 THEN {} ELSE None]], None))

\* A _get that fills only the fields the cache lacks (setdefault for each
\* field of the record, where the code calls dict.update).
ZabbixHost_get_keeping(s, select, plan) ==
    LET r == host_get(s, select, plan)
        cached == {f \in {"host", "name", "status", "proxy_hostid"} :
                        s.z_host[f] # None}
    IN  zapi_exception("host data get failed",
            IF r.exc # "" THEN r
            ELSE IF r.rows = <<>> THEN Raise(r.s, "IndexError")
            ELSE Ret([r.s EXCEPT !.z_host =
                        DictUpdate(DictUpdate(@, r.rows[1]),
                                   [f \in cached |-> s.z_host[f]])], None))

\* ZabbixHost._get(**options)
ZabbixHost_get(s, select, plan) ==
    LET r == host_get(s, select, plan)
    IN  zapi_exception("host data get failed",
            IF r.exc # "" THEN r
            ELSE IF r.rows = <<>> THEN Raise(r.s, "IndexError")
            ELSE Ret([r.s EXCEPT !.z_host = DictUpdate(@, r.rows[1])], None))

\* ZabbixHost._update(**options): not decorated, a failure propagates.
\* host.update(hostid=101, **options): the server stores the fields sent.
ZabbixHost_update(s, options, plan) ==
    LET c == Called(s, "host.update")
        scalars == [f \in DOMAIN options \ {"inventory"} |-> Wire(options[f])]
    IN  IF plan["host.update"] = "fail" THEN Raise(c, "ZabbixAPIException")
        ELSE Ret([c EXCEPT
                    !.zbx.host = DictUpdate(@, scalars),
                    !.zbx.inventory =
                        IF "inventory" \in DOMAIN options
                        THEN DictUpdate(@, options["inventory"]) ELSE @], None)

\* ZabbixHost.host
ZabbixHost_host(s, plan) ==
    LET r == IF s.z_host.host = None THEN ZabbixHost_get(s, "extend", plan)
             ELSE Ret(s, None)
    IN  IF r.exc # "" THEN r ELSE Ret(r.s, r.s.z_host.host)

\* log.<level>("%s: ...", self, ...): the record is rendered when the level
\* is enabled, and self with it: str(self) is self.host (ZabbixHost.__str__).
\* Every exception of rendering a log record is handled inside logging and
\* never reaches the caller.
LogSelf(s, level, msg, plan) ==
    Logged(IF \/ level = "ERROR" /\ logLevel \in {"INFO", "WARNING"}
              \/ level = "INFO" /\ logLevel = "INFO"
           THEN ZabbixHost_host(s, plan).s ELSE s, level, msg)

\* A host setter that stores the value before the update is sent (the two
\* statements of the try block in the other order).
ZabbixHost_host_setter_optimistic(s, value, plan) ==
    LET u == ZabbixHost_update([s EXCEPT !.z_host.host = value],
                               [host |-> value], plan)
    IN  CASE u.exc = "ZabbixAPIException" ->
                Ret(LogSelf(u.s, "ERROR", "rename failed", plan), None)
          [] u.exc # "" -> u
          [] OTHER -> u

\* ZabbixHost.host setter
ZabbixHost_host_setter(s, value, plan) ==
    LET u == ZabbixHost_update(s, [host |-> value], plan)
    IN  CASE u.exc = "ZabbixAPIException" ->
                Ret(LogSelf(u.s, "ERROR", "rename failed", plan), None)
          [] u.exc # "" -> u
          [] OTHER -> Ret([u.s EXCEPT !.z_host.host = value], None)

\* A status setter that sends the update and leaves the cache as it was.
ZabbixHost_status_setter_forgetful(s, value, plan) ==
    zapi_exception("status change failed",
        ZabbixHost_update(s, [status |-> value], plan))

\* ZabbixHost.status setter, decorated
ZabbixHost_status_setter(s, value, plan) ==
    LET u == ZabbixHost_update(s, [status |-> value], plan)
    IN  zapi_exception("status change failed",
            IF u.exc # "" THEN u
            ELSE Ret([u.s EXCEPT !.z_host.status = value], None))

-----------------------------------------------------------------------------
(* The records of the remote session *)

\* index of the remote record with the given id, 0 when there is none
Index(recs, idf, id) ==
    IF \E i \in 1..Len(recs) : recs[i][idf] = id
    THEN CHOOSE i \in 1..Len(recs) : recs[i][idf] = id
    ELSE 0

-----------------------------------------------------------------------------
(* ZabbixMacro: m is the reference of the entity's dict in the heap *)

\* ZabbixMacro._get(): usermacro.get(output='extend', hostmacroids=[id])
ZabbixMacro_get(s, m, plan) ==
    LET c == Called(s, "usermacro.get")
        k == Index(c.zbx.macros, "hostmacroid", s.z_macro[m].hostmacroid)
        r == CASE plan["usermacro.get"] = "fail" -> Raise(c, "ZabbixAPIException")
               [] plan["usermacro.get"] = "empty" \/ k = 0 -> Rows(c, <<>>)
               [] OTHER -> Rows(c, <<c.zbx.macros[k]>>)
    IN  zapi_exception("macro data get failed",
            IF r.exc # "" THEN r
            ELSE IF r.rows = <<>> THEN Raise(r.s, "IndexError")
            ELSE Ret([r.s EXCEPT !.z_macro[m] = DictUpdate(@, r.rows[1])], None))

\* ZabbixMacro._update(**kwargs), decorated:
\* usermacro.update(hostmacroid=id, <field>=value)
ZabbixMacro_update(s, m, kwargs, plan) ==
    LET c == Called(s, "usermacro.update")
        k == Index(c.zbx.macros, "hostmacroid", s.z_macro[m].hostmacroid)
        sent == [f \in DOMAIN kwargs |-> Wire(kwargs[f])]
    IN  zapi_exception("macro data update failed",
            IF plan["usermacro.update"] = "fail" \/ k = 0
            THEN Raise(c, "ZabbixAPIException")
            ELSE Ret([c EXCEPT !.zbx.macros[k] = DictUpdate(@, sent)], None))

\* ZabbixMacro.name
ZabbixMacro_name(s, m, plan) ==
    LET r == IF ~Truthy(s.z_macro[m].macro) THEN ZabbixMacro_get(s, m, plan)
             ELSE Ret(s, None)
    IN  IF r.exc # "" THEN r ELSE Ret(r.s, r.s.z_macro[m].macro)

\* ZabbixMacro.value
ZabbixMacro_value(s, m, plan) ==
    LET r == IF ~Truthy(s.z_macro[m].value) THEN ZabbixMacro_get(s, m, plan)
             ELSE Ret(s, None)
    IN  IF r.exc # "" THEN r ELSE Ret(r.s, r.s.z_macro[m].value)

\* ZabbixMacro.value setter
ZabbixMacro_value_setter(s, m, value, plan) ==
    LET u == ZabbixMacro_update(s, m, [value |-> value], plan)
    IN  IF u.exc # "" THEN u
        ELSE Ret([u.s EXCEPT !.z_macro[m].value = value], None)

\* ZabbixMacro.create(zapi, hostid, macro, value), decorated.
\* usermacro.create(hostid=.., macro=.., value=..): the server refuses a name
\* the host already has; otherwise it stores the macro under a new id.  The
\* entity returned wraps a new dict that holds the identifier alone.
ZabbixMacro_create(s, hostid, macro, value, plan) ==
    LET c == Called(s, "usermacro.create")
        id == c.zbx.nextid
    IN  zapi_exception("macro create failed",
            IF \/ plan["usermacro.create"] = "fail"
               \/ \E k \in 1..Len(c.zbx.macros) : c.zbx.macros[k].macro = Wire(macro)
            THEN Raise(c, "ZabbixAPIException")
            ELSE RetRef([c EXCEPT
                    !.zbx.macros = Append(@, [hostmacroid |-> id, macro |-> Wire(macro),
                                              value |-> Wire(value), hostid |-> Wire(hostid)]),
                    !.zbx.nextid = id + 1,
                    !.z_macro = Append(@, [hostmacroid |-> id, macro |-> None,
                                           value |-> None, hostid |-> None])],
                        {Len(c.z_macro) + 1}))

-----------------------------------------------------------------------------
(* ZabbixInterface: i is the reference of the entity's dict in the heap *)

\* ZabbixInterface._get(**kwargs):
\* hostinterface.get(output='extend', interfaceid=id)
ZabbixInterface_get(s, i, plan) ==
    LET c == Called(s, "hostinterface.get")
        k == Index(c.zbx.interfaces, "interfaceid", s.z_interface[i].interfaceid)
        r == CASE plan["hostinterface.get"] = "fail" -> Raise(c, "ZabbixAPIException")
               [] plan["hostinterface.get"] = "empty" \/ k = 0 -> Rows(c, <<>>)
               [] OTHER -> Rows(c, <<c.zbx.interfaces[k]>>)
    IN  zapi_exception("interface data get failed",
            IF r.exc # "" THEN r
            ELSE IF r.rows = <<>> THEN Raise(r.s, "IndexError")
            ELSE Ret([r.s EXCEPT !.z_interface[i] = DictUpdate(@, r.rows[1])], None))

\* ZabbixInterface._update(**kwargs), decorated:
\* hostinterface.update(interfaceid=id, <field>=value)
ZabbixInterface_update(s, i, kwargs, plan) ==
    LET c == Called(s, "hostinterface.update")
        k == Index(c.zbx.interfaces, "interfaceid", s.z_interface[i].interfaceid)
        sent == [f \in DOMAIN kwargs |-> Wire(kwargs[f])]
    IN  zapi_exception("interface data update failed",
            IF plan["hostinterface.update"] = "fail" \/ k = 0
            THEN Raise(c, "ZabbixAPIException")
            ELSE Ret([c EXCEPT !.zbx.interfaces[k] = DictUpdate(@, sent)], None))

\* ZabbixInterface.dns, .hostid, .ip, .main, .port, .type, .useip: the shape
\* the accessors share: fetch when the cached field is falsy, then return the
\* field, through int() where the accessor converts (all but dns and ip)
InterfaceField(s, i, f, toInt, plan) ==
    LET r == IF ~Truthy(s.z_interface[i][f]) THEN ZabbixInterface_get(s, i, plan)
             ELSE Ret(s, None)
        v == r.s.z_interface[i][f]
        n == PyInt(v)
    IN  IF r.exc # "" THEN r
        ELSE IF ~toInt THEN Ret(r.s, v)
        ELSE IF n.exc # "" THEN Raise(r.s, n.exc) ELSE Ret(r.s, n.ret)

-----------------------------------------------------------------------------
(* ZabbixHost: relationships, inventory, upsert *)

\* bool(x) of an optional list
TruthyList(x) == x # {} /\ x # {<<>>}

\* ZabbixHost.macros: the list returned is s._macros of the outcome.  The
\* entities wrap the dicts of the raw list themselves.  Iterating None
\* (the get failed and nothing was cached) is a TypeError.
ZabbixHost_macros(s, plan) ==
    IF s._macros # <<>> THEN Ret(s, None)
    ELSE LET r == IF ~TruthyList(s.z_host.macros)
                  THEN ZabbixHost_get(s, "macros", plan) ELSE Ret(s, None)
         IN  IF r.exc # "" THEN r
             ELSE IF r.s.z_host.macros = {} THEN Raise(r.s, "TypeError")
             ELSE Ret([r.s EXCEPT !._macros = CHOOSE l \in r.s.z_host.macros : TRUE], None)

\* next(filter(lambda m: m.name == macro, macros), None): walk[k] is the
\* outcome once the filter has looked at the first k macros; reading a name
\* may fetch the macro, and the walk stops at the first match or exception.
FirstNamed(s, macro, plan) ==
    LET walk[k \in 0..Len(s._macros)] ==
            IF k = 0 THEN RetRef(s, {})
            ELSE LET p == walk[k - 1]
                     n == ZabbixMacro_name(p.s, s._macros[k], plan)
                 IN  IF p.exc # "" \/ p.ref # {} THEN p
                     ELSE IF n.exc # "" THEN n
                     ELSE IF n.ret = macro THEN RetRef(n.s, {s._macros[k]})
                     ELSE RetRef(n.s, {})
    IN  walk[Len(s._macros)]

\* A get_macro that calls next() without a default: StopIteration when no
\* macro has the name (as get_group does).
ZabbixHost_get_macro_nodefault(s, macro, plan) ==
    LET l == ZabbixHost_macros(s, plan)
    IN  IF l.exc # "" THEN l
        ELSE IF FirstNamed(l.s, macro, plan).exc = "" /\ FirstNamed(l.s, macro, plan).ref = {}
             THEN Raise(FirstNamed(l.s, macro, plan).s, "StopIteration")
        ELSE FirstNamed(l.s, macro, plan)

\* ZabbixHost.get_macro(macro)
ZabbixHost_get_macro(s, macro, plan) ==
    LET l == ZabbixHost_macros(s, plan)
    IN  IF l.exc # "" THEN l ELSE FirstNamed(l.s, macro, plan)

\* ZabbixHost.update_or_create_macro(macro, value), decorated, statement by
\* statement; each part takes the outcome of the call before it, and an
\* exception of that call ends the method.

\* "return zabbix_macro" after the assignment "zabbix_macro.value = value" (w)
update_or_create_macro_return(w, m) ==
    IF w.exc # "" THEN w ELSE RetRef(w.s, {m})

\* the log call and the assignment; v2 is the value of the macro read again
\* as an argument of the log call
update_or_create_macro_assign(v2, m, value, plan) ==
    IF v2.exc # "" THEN v2
    ELSE update_or_create_macro_return(
            ZabbixMacro_value_setter(LogSelf(v2.s, "INFO", "changing macro", plan),
                                     m, value, plan), m)

\* "if str(zabbix_macro.value) != str(value)"; v1 is the value read
update_or_create_macro_compare(v1, m, value, plan) ==
    IF v1.exc # "" THEN v1
    ELSE IF PyStr(v1.ret) = PyStr(value) THEN RetRef(v1.s, {m})
    ELSE update_or_create_macro_assign(ZabbixMacro_value(v1.s, m, plan),
                                       m, value, plan)

\* "if zabbix_macro: ... else: ..."; g is the outcome of get_macro.  A macro
\* created is returned and kept nowhere in the Host.
update_or_create_macro_found(g, macro, value, plan) ==
    IF g.exc # "" THEN g
    ELSE IF g.ref = {}
    THEN ZabbixMacro_create(LogSelf(g.s, "INFO", "setting macro", plan),
                            g.s.z_host.hostid, macro, value, plan)
    ELSE update_or_create_macro_compare(
            ZabbixMacro_value(g.s, CHOOSE m \in g.ref : TRUE, plan),
            CHOOSE m \in g.ref : TRUE, value, plan)

\* An inventory setter that merges the value into the cached dict and sends
\* only the value given (self._update(inventory=value)).
ZabbixHost_inventory_setter_partial(s, value, plan) ==
    LET l == LogSelf(s, "INFO", "changing inventory", plan)
        d == DictUpdate(CHOOSE x \in l.z_host.inventory : TRUE, value)
        merged == [l EXCEPT !.z_host.inventory = {d}]
    IN  zapi_exception("inventory update failed",
            IF l.z_host.inventory = {} THEN Raise(l, "KeyError")
            ELSE ZabbixHost_update(merged, [inventory |-> value], plan))

\* ZabbixHost.inventory setter, decorated: the value is merged into the cached
\* dict first, and the merged dict is then sent.
ZabbixHost_inventory_setter(s, value, plan) ==
    LET l == LogSelf(s, "INFO", "changing inventory", plan)
        d == DictUpdate(CHOOSE x \in l.z_host.inventory : TRUE, value)
        merged == [l EXCEPT !.z_host.inventory = {d}]
    IN  zapi_exception("inventory update failed",
            IF l.z_host.inventory = {} THEN Raise(l, "KeyError")
            ELSE ZabbixHost_update(merged, [inventory |-> d], plan))

-----------------------------------------------------------------------------
(* ZabbixHost: interfaces *)

\* the assignment of the list of entities in ZabbixHost.interfaces, on the
\* outcome r of the _get before it (iterating None is a TypeError)
interfaces_built(r) ==
    IF r.exc # "" THEN r
    ELSE IF r.s.z_host.interfaces = {} THEN Raise(r.s, "TypeError")
    ELSE Ret([r.s EXCEPT !._interfaces = CHOOSE l \in r.s.z_host.interfaces : TRUE],
             None)

\* ZabbixHost.interfaces: the list returned is s._interfaces of the outcome.
\* The entities are built again when there are none or when their number
\* differs from that of the raw list (len(None) is a TypeError).
ZabbixHost_interfaces(s, plan) ==
    IF s._interfaces # <<>> /\ s.z_host.interfaces = {} THEN Raise(s, "TypeError")
    ELSE IF /\ s._interfaces # <<>>
            /\ Len(s._interfaces) = Len(CHOOSE l \in s.z_host.interfaces : TRUE)
         THEN Ret(s, None)
    ELSE interfaces_built(IF ~TruthyList(s.z_host.interfaces)
                          THEN ZabbixHost_get(s, "interfaces", plan) ELSE Ret(s, None))

\* next(filter(lambda i: int(i.main) == 1, interfaces), None): walk[k] is the
\* outcome once the filter has looked at the first k interfaces.
FirstMain(s, plan) ==
    LET walk[k \in 0..Len(s._interfaces)] ==
            IF k = 0 THEN RetRef(s, {})
            ELSE LET p == walk[k - 1]
                     n == InterfaceField(p.s, s._interfaces[k], "main", TRUE, plan)
                 IN  IF p.exc # "" \/ p.ref # {} THEN p
                     ELSE IF n.exc # "" THEN n
                     ELSE IF n.ret = "1" THEN RetRef(n.s, {s._interfaces[k]})
                     ELSE RetRef(n.s, {})
    IN  walk[Len(s._interfaces)]

\* A get_main_interface that takes the first interface of the collection,
\* whatever its main flag.
ZabbixHost_get_main_interface_first(s, plan) ==
    LET l == ZabbixHost_interfaces(s, plan)
    IN  IF l.exc # "" THEN l
        ELSE IF l.s._interfaces = <<>> THEN RetRef(l.s, {})
        ELSE RetRef(l.s, {l.s._interfaces[1]})

\* ZabbixHost.get_main_interface()
ZabbixHost_get_main_interface(s, plan) ==
    LET l == ZabbixHost_interfaces(s, plan)
    IN  IF l.exc # "" THEN l ELSE FirstMain(l.s, plan)

-----------------------------------------------------------------------------
(* ZabbixHost: VIP classification *)

IS_SVIP == "'{$IS_SVIP}'"
IS_VIP == "'{$IS_VIP}'"

\* The return statements of _get_VIP, on the value of {$IS_SVIP} and the
\* outcome v of reading the value of {$IS_VIP}.
get_VIP_classified(is_svip, v) ==
    CASE v.exc # "" -> v
      [] Truthy(is_svip) /\ PyInt(is_svip).exc # "" -> Raise(v.s, PyInt(is_svip).exc)
      [] Truthy(is_svip) /\ PyInt(is_svip).ret = "1" -> Ret(v.s, "'SVIP'")
      [] Truthy(v.ret) /\ PyInt(v.ret).exc # "" -> Raise(v.s, PyInt(v.ret).exc)
      [] Truthy(v.ret) /\ PyInt(v.ret).ret = "1" -> Ret(v.s, "'VIP'")
      [] OTHER -> Ret(v.s, "''")

\* is_vip = self.get_macro('{$IS_VIP}').value, on the outcome g of get_macro:
\* None has no attribute value
get_VIP_is_vip(is_svip, g, plan) ==
    IF g.exc # "" THEN g
    ELSE IF g.ref = {} THEN Raise(g.s, "AttributeError")
    ELSE get_VIP_classified(is_svip,
            ZabbixMacro_value(g.s, CHOOSE m \in g.ref : TRUE, plan))

\* the rest of _get_VIP on the outcome v of reading the value of {$IS_SVIP}
get_VIP_is_svip_value(v, plan) ==
    IF v.exc # "" THEN v
    ELSE get_VIP_is_vip(v.ret, ZabbixHost_get_macro(v.s, IS_VIP, plan), plan)

\* is_svip = self.get_macro('{$IS_SVIP}').value, on the outcome g of get_macro
get_VIP_is_svip(g, plan) ==
    IF g.exc # "" THEN g
    ELSE IF g.ref = {} THEN Raise(g.s, "AttributeError")
    ELSE get_VIP_is_svip_value(
            ZabbixMacro_value(g.s, CHOOSE m \in g.ref : TRUE, plan), plan)

\* ZabbixHost._get_VIP()
ZabbixHost_get_VIP(s, plan) ==
    get_VIP_is_svip(ZabbixHost_get_macro(s, IS_SVIP, plan), plan)

-----------------------------------------------------------------------------
(* ZabbixHost.delete, ZabbixTrigger, ZabbixEvent *)

TriggerId == "'7'"
EventId == "'9'"

\* trigger.deleteDependencies({triggerid})
trigger_deleteDependencies(s, triggerid, plan) ==
    LET c == Called(s, "trigger.deleteDependencies")
    IN  IF plan["trigger.deleteDependencies"] = "fail"
        THEN Raise(c, "ZabbixAPIException")
        ELSE Ret([c EXCEPT !.zbx.dependencies = <<>>], None)

\* event.get(...): the events of the trigger, or the event of an id
event_get(s, plan) ==
    LET c == Called(s, "event.get")
    IN  CASE plan["event.get"] = "fail" -> Raise(c, "ZabbixAPIException")
          [] plan["event.get"] = "empty" -> Rows(c, <<>>)
          [] OTHER -> Rows(c, <<[eventid |-> EventId,
                                 acknowledged |-> c.zbx.acknowledged]>>)

\* ZabbixTrigger._get(**kwargs), decorated.
\* trigger.get(output='extend', triggerids=id, ...): the dependencies come
\* with the record when they are selected
ZabbixTrigger_get(s, select, plan) ==
    LET c == Called(s, "trigger.get")
        r == CASE plan["trigger.get"] = "fail" -> Raise(c, "ZabbixAPIException")
               [] plan["trigger.get"] = "empty" -> Rows(c, <<>>)
               [] select = "dependencies" ->
                     Rows(c, <<[triggerid |-> TriggerId,
                                dependencies |-> {c.zbx.dependencies}]>>)
               [] OTHER -> Rows(c, <<[triggerid |-> TriggerId]>>)
    IN  zapi_exception("trigger data get failed",
            IF r.exc # "" THEN r
            ELSE IF r.rows = <<>> THEN Raise(r.s, "IndexError")
            ELSE Ret([r.s EXCEPT !.z_trigger = DictUpdate(@, r.rows[1])], None))

\* ZabbixTrigger.triggerid: [exc, ret]
ZabbixTrigger_triggerid(s) == PyInt(s.z_trigger.triggerid)

\* A delete_dependencies that leaves the cached list alone (without the del
\* statement).
ZabbixTrigger_delete_dependencies_keeping(s, plan) ==
    LET id == ZabbixTrigger_triggerid(s)
    IN  zapi_exception("trigger dependencies delete failed",
            IF id.exc # "" THEN Raise(s, id.exc)
            ELSE trigger_deleteDependencies(s, id.ret, plan))

\* ZabbixTrigger.delete_dependencies(), decorated: the cached list is dropped
\* first (del of a missing key is a KeyError), then the call is made.
ZabbixTrigger_delete_dependencies(s, plan) ==
    LET d == [s EXCEPT !.z_trigger.dependencies = {}]
        id == ZabbixTrigger_triggerid(d)
    IN  zapi_exception("trigger dependencies delete failed",
            IF s.z_trigger.dependencies = {} THEN Raise(s, "KeyError")
            ELSE IF id.exc # "" THEN Raise(d, id.exc)
            ELSE trigger_deleteDependencies(d, id.ret, plan))

\* ZabbixEvent._get(**options), decorated
ZabbixEvent_get(s, plan) ==
    LET r == event_get(s, plan)
    IN  zapi_exception("event data get failed",
            IF r.exc # "" THEN r
            ELSE IF r.rows = <<>> THEN Raise(r.s, "IndexError")
            ELSE Ret([r.s EXCEPT !.z_event = DictUpdate(@, r.rows[1])], None))

-----------------------------------------------------------------------------
(* Construction.  A constructor returns the name of its class for the new   *)
(* entity; a record is a function from the fields it has.                    *)

\* dict.get(f)
DictGet(d, f) == IF f \in DOMAIN d THEN d[f] ELSE None

\* A constructor that takes any record (without the test of the identifier).
init_unchecked(s, cls, idfield, record) == Ret(s, cls)

\* The body every __init__ has: `if not record.get(<id>): raise KeyError`,
\* then the record is kept.  ZabbixProblem inherits the constructor of
\* ZabbixEvent; ZabbixTrigger and ZabbixEvent read host.zapi after the test.
init(s, cls, idfield, record) ==
    IF ~Truthy(DictGet(record, idfield)) THEN Raise(s, "KeyError") ELSE Ret(s, cls)

\* A remote get of the session that answers with the record given: it
\* raises, returns no record, or returns the record.
get_record(s, method, record, plan) ==
    LET c == Called(s, method)
    IN  CASE plan[method] = "fail" -> Raise(c, "ZabbixAPIException")
          [] plan[method] = "empty" -> Rows(c, <<>>)
          [] OTHER -> Rows(c, <<record>>)

\* ZabbixTrigger.get_by_id(zapi, triggerid), decorated: the Host of the
\* record is constructed first, then the Trigger
ZabbixTrigger_get_by_id(s, trigger, plan) ==
    LET r == get_record(s, "trigger.get", trigger, plan)
        h == init(r.s, "ZabbixHost", "hostid", r.rows[1].hosts[1])
    IN  zapi_exception("trigger get failed",
            IF r.exc # "" THEN r
            ELSE IF r.rows = <<>> \/ r.rows[1].hosts = <<>> THEN Raise(r.s, "IndexError")
            ELSE IF h.exc # "" THEN h
            ELSE init(h.s, "ZabbixTrigger", "triggerid", r.rows[1]))

\* ZabbixEvent.get_by_id / ZabbixProblem.get_by_id(zapi, eventid), decorated:
\* the Trigger of the event is fetched, and the entity is constructed when a
\* Trigger came back
event_get_by_id(s, cls, method, event, trigger, plan) ==
    LET r == get_record(s, method, event, plan)
        g == ZabbixTrigger_get_by_id(r.s, trigger, plan)
    IN  zapi_exception("event get failed",
            IF r.exc # "" THEN r
            ELSE IF r.rows = <<>> THEN Raise(r.s, "IndexError")
            ELSE IF g.exc # "" THEN g
            ELSE IF g.ret = None THEN Ret(g.s, None)
            ELSE init(g.s, cls, "eventid", r.rows[1]))

-----------------------------------------------------------------------------
(* src/ZabbixFactory.py *)

\* The number of arguments of each @zapi_exception(...) of the module, in the
\* order the class bodies run them: ZabbixGroupFactory.__get passes
\* logging.CRITICAL as a second one.
FactoryDecorators == <<1, 2, 1, 1, 1, 1, 1, 1, 1, 1, 1>>

\* Importing the module: every class body runs its decorators.
\* zapi_exception(log_message) takes one positional argument, and a call with
\* another number of them is a TypeError; the first exception ends the import
\* and no factory class exists.
ZabbixFactory_import(s) ==
    IF \E k \in 1..Len(FactoryDecorators) : FactoryDecorators[k] # 1
    THEN Raise(s, "TypeError") ELSE Ret(s, None)

\* ZabbixProblemFactory.__get(**options), decorated: problem.get(**options)
\* raises or returns the records; the outcome is the list, or None when the
\* call failed (ret = None and no rows)
ZabbixProblemFactory_get(s, records, plan) ==
    LET c == Called(s, "problem.get")
    IN  zapi_exception("problems get failed",
            CASE plan["problem.get"] = "fail" -> Raise(c, "ZabbixAPIException")
              [] plan["problem.get"] = "empty" -> Rows(c, <<>>)
              [] OTHER -> Rows(c, records))

\* ZabbixEventFactory._get_trigger_by_eventid(eventid) and
\* ZabbixProblemFactory.__make(event): the event is fetched again with its
\* trigger and host ([0] of None is a TypeError, of an empty list an
\* IndexError), and the Host, the Trigger and the Problem are constructed.
ZabbixProblemFactory_make(s, event, plan) ==
    LET g == zapi_exception("event trigger get failed",
                get_record(s, "event.get",
                    [relatedObject |-> [triggerid |-> TriggerId],
                     hosts |-> <<[hostid |-> HostId]>>], plan))
    IN  IF g.exc # "" THEN g
        ELSE IF "rows" \notin DOMAIN g THEN Raise(g.s, "TypeError")
        ELSE IF g.rows = <<>> THEN Raise(g.s, "IndexError")
        ELSE IF init(g.s, "ZabbixHost", "hostid", g.rows[1].hosts[1]).exc # ""
             THEN init(g.s, "ZabbixHost", "hostid", g.rows[1].hosts[1])
        ELSE IF init(g.s, "ZabbixTrigger", "triggerid", g.rows[1].relatedObject).exc # ""
             THEN init(g.s, "ZabbixTrigger", "triggerid", g.rows[1].relatedObject)
        ELSE init(g.s, "ZabbixProblem", "eventid", event)

\* Iterating the generator (self.__make(e) for e in z_events): made[k] is the
\* outcome after k records, ref holding the list of the entities made.
Drained(s, z_events, plan) ==
    LET made[k \in 0..Len(z_events)] ==
            IF k = 0 THEN RetRef(s, {<<>>})
            ELSE IF made[k - 1].exc # "" THEN made[k - 1]
            ELSE IF ZabbixProblemFactory_make(made[k - 1].s, z_events[k], plan).exc # ""
                 THEN ZabbixProblemFactory_make(made[k - 1].s, z_events[k], plan)
            ELSE RetRef(ZabbixProblemFactory_make(made[k - 1].s, z_events[k], plan).s,
                        {Append(CHOOSE l \in made[k - 1].ref : TRUE,
                            ZabbixProblemFactory_make(made[k - 1].s, z_events[k], plan).ret)})
    IN  made[Len(z_events)]

-----------------------------------------------------------------------------
(* Operations *)

\* the machine state an operation starts in
S == [zbx |-> zbx, z_host |-> z_host, _macros |-> _macros,
      _interfaces |-> _interfaces, z_macro |-> z_macro,
      z_interface |-> z_interface, _vip |-> _vip, _groups |-> _groups,
      z_trigger |-> z_trigger,
      z_event |-> z_event, calls |-> <<>>, logs |-> <<>>]

\* the part of a plan that the calls made have met
Met(plan, calls) ==
    [m \in Methods |-> IF \E k \in 1..Len(calls) : calls[k] = m THEN plan[m] ELSE "ok"]

\* One operation of the caller: the objects and the remote records become
\* those the outcome leaves, and op records the operation.
Do(name, field, obj, arg, argd, plan, out) ==
    /\ steps' = steps + 1
    /\ zbx' = out.s.zbx
    /\ z_host' = out.s.z_host
    /\ _macros' = out.s._macros
    /\ _interfaces' = out.s._interfaces
    /\ z_macro' = out.s.z_macro
    /\ z_interface' = out.s.z_interface
    /\ _vip' = out.s._vip
    /\ _groups' = out.s._groups
    /\ z_trigger' = out.s.z_trigger
    /\ z_event' = out.s.z_event
    /\ op' = [name |-> name, field |-> field, obj |-> obj, arg |-> arg,
              argd |-> argd, plan |-> Met(plan, out.s.calls), calls |-> out.s.calls,
              logs |-> out.s.logs, exc |-> out.exc, ret |-> out.ret,
              ref |-> out.ref]
    /\ UNCHANGED <<logLevel, pc>>

NoOp == [name |-> "init", field |-> "", obj |-> 0, arg |-> None, argd |-> <<>>,
         plan |-> [m \in Methods |-> "ok"], calls |-> <<>>, logs |-> <<>>,
         exc |-> "", ret |-> None, ref |-> {}]

Names == {"'a'", "'b'"}
Flags == {"0", "1"}
MacroNames == {"'{$A}'", "'{$B}'"}
MacroValues == {"''", "'1'", "'2'"}

HostScalars == {"host", "name", "status", "proxy_hostid"}

\* value = host.host
ReadHost ==
    /\ steps < MaxOps
    /\ \E plan \in Plans({"host.get"}) :
           LET out == ZabbixHost_host(S, plan)
           IN  Do("ZabbixHost.read", "host", 0, None, <<>>, plan, out)

\* value = host.name
\* ZabbixHost.name
ReadName ==
    /\ steps < MaxOps
    /\ \E plan \in Plans({"host.get"}) :
           LET s == S
               out ==
                   LET r == IF s.z_host.name = None THEN ZabbixHost_get(s, "extend", plan)
                            ELSE Ret(s, None)
                   IN  IF r.exc # "" THEN r ELSE Ret(r.s, r.s.z_host.name)
           IN  Do("ZabbixHost.read", "name", 0, None, <<>>, plan, out)

\* value = host.status
\* ZabbixHost.status
ReadStatus ==
    /\ steps < MaxOps
    /\ \E plan \in Plans({"host.get"}) :
           LET s == S
               out ==
                   LET r == IF s.z_host.status = None THEN ZabbixHost_get(s, "extend", plan)
                            ELSE Ret(s, None)
                       i == PyInt(r.s.z_host.status)
                   IN  IF r.exc # "" THEN r
                       ELSE IF i.exc # "" THEN Raise(r.s, i.exc) ELSE Ret(r.s, i.ret)
           IN  Do("ZabbixHost.read", "status", 0, None, <<>>, plan, out)

\* value = host.proxy_hostid
\* ZabbixHost.proxy_hostid
ReadProxyHostid ==
    /\ steps < MaxOps
    /\ \E plan \in Plans({"host.get"}) :
           LET s == S
               out ==
                   LET r == IF ~Truthy(s.z_host.proxy_hostid) THEN ZabbixHost_get(s, "extend", plan)
                            ELSE Ret(s, None)
                   IN  IF r.exc # "" THEN r ELSE Ret(r.s, r.s.z_host.proxy_hostid)
           IN  Do("ZabbixHost.read", "proxy_hostid", 0, None, <<>>, plan, out)

\* host.host = value
SetHost ==
    /\ steps < MaxOps
    /\ \E value \in Names, plan \in Plans({"host.get", "host.update"}) :
           LET out == ZabbixHost_host_setter(S, value, plan)
           IN  Do("ZabbixHost.write", "host", 0, value, <<>>, plan, out)

\* host.name = value
\* ZabbixHost.name setter
SetName ==
    /\ steps < MaxOps
    /\ \E value \in Names, plan \in Plans({"host.get", "host.update"}) :
           LET s == S
               out ==
                   LET u == ZabbixHost_update(s, [name |-> value], plan)
                   IN  CASE u.exc = "ZabbixAPIException" ->
                               Ret(LogSelf(u.s, "ERROR", "name change failed", plan), None)
                         [] u.exc # "" -> u
                         [] OTHER -> Ret([u.s EXCEPT !.z_host.name = value], None)
           IN  Do("ZabbixHost.write", "name", 0, value, <<>>, plan, out)

\* host.status = value
SetStatus ==
    /\ steps < MaxOps
    /\ \E value \in Flags, plan \in Plans({"host.get", "host.update"}) :
           LET out == ZabbixHost_status_setter(S, value, plan)
           IN  Do("ZabbixHost.write", "status", 0, value, <<>>, plan, out)

\* host.proxy_hostid = value
\* ZabbixHost.proxy_hostid setter, decorated
SetProxyHostid ==
    /\ steps < MaxOps
    /\ \E value \in Flags, plan \in Plans({"host.get", "host.update"}) :
           LET s == S
               out ==
                   LET l == LogSelf(s, "INFO", "moving to proxy", plan)
                       u == ZabbixHost_update(l, [proxy_hostid |-> value], plan)
                   IN  zapi_exception("move to proxy failed",
                           IF u.exc # "" THEN u
                           ELSE Ret([u.s EXCEPT !.z_host.proxy_hostid = value], None))
           IN  Do("ZabbixHost.write", "proxy_hostid", 0, value, <<>>, plan, out)

InventoryValues == {[os |-> "'z'"], [location |-> "'z'"], [os |-> "'x'"]}

\* value = host.inventory
\* ZabbixHost.inventory: the dict returned is s.z_host.inventory of the outcome
ReadInventory ==
    /\ steps < MaxOps
    /\ \E plan \in Plans({"host.get"}) :
           LET s == S
               out ==
                   IF s.z_host.inventory \notin {{}, {<<>>}} THEN Ret(s, None)
                   ELSE LET r == ZabbixHost_get(s, "inventory", plan)
                            d == CHOOSE x \in r.s.z_host.inventory : TRUE
                            dropped == {"hostid", "inventory_mode"}
                        IN  CASE r.exc # "" -> r
                              [] r.s.z_host.inventory = {} -> Raise(r.s, "KeyError")
                              [] ~(dropped \subseteq DOMAIN d) -> Raise(r.s, "KeyError")
                              [] OTHER -> Ret([r.s EXCEPT !.z_host.inventory =
                                            {[f \in DOMAIN d \ dropped |-> d[f]]}], None)
           IN  Do("ZabbixHost.read", "inventory", 0, None, <<>>, plan, out)

\* host.inventory = value
SetInventory ==
    /\ steps < MaxOps
    /\ \E value \in InventoryValues, plan \in Plans({"host.get", "host.update"}) :
           LET out == ZabbixHost_inventory_setter(S, value, plan)
           IN  Do("ZabbixHost.write", "inventory", 0, None, value, plan, out)

-----------------------------------------------------------------------------
(* Operations on macros *)

\* the macro entities the caller holds: those of the Host's collection and
\* the one the last operation returned
MacroEntities == {_macros[k] : k \in 1..Len(_macros)} \cup (IF op.name = "ZabbixHost.update_or_create_macro"
                                      THEN op.ref ELSE {})

\* macros = host.macros
ReadMacros ==
    /\ steps < MaxOps
    /\ \E plan \in Plans({"host.get"}) :
           LET out == ZabbixHost_macros(S, plan)
           IN  Do("ZabbixHost.read", "macros", 0, None, <<>>, plan, out)

\* host.update_or_create_macro(macro, value)
\* ZabbixHost.update_or_create_macro(macro, value)
UpdateOrCreateMacro ==
    /\ steps < MaxOps
    /\ \E macro \in MacroNames, value \in MacroValues,
          plan \in Plans({"host.get", "usermacro.get", "usermacro.update",
                          "usermacro.create"}) :
           LET s == S
               out ==
                   zapi_exception("macro set failed",
                       update_or_create_macro_found(ZabbixHost_get_macro(s, macro, plan),
                                                    macro, value, plan))
           IN  Do("ZabbixHost.update_or_create_macro", macro, 0, value, <<>>, plan, out)

\* value = macro.hostid
\* ZabbixMacro.hostid
ReadMacroHostid ==
    /\ steps < MaxOps
    /\ \E m \in MacroEntities, plan \in Plans({"usermacro.get"}) :
           LET s == S
               out ==
                   LET r == IF ~Truthy(s.z_macro[m].hostid) THEN ZabbixMacro_get(s, m, plan)
                            ELSE Ret(s, None)
                       i == PyInt(r.s.z_macro[m].hostid)
                   IN  IF r.exc # "" THEN r
                       ELSE IF i.exc # "" THEN Raise(r.s, i.exc) ELSE Ret(r.s, i.ret)
           IN  Do("ZabbixMacro.read", "hostid", m, None, <<>>, plan, out)

\* value = macro.name
ReadMacroName ==
    /\ steps < MaxOps
    /\ \E m \in MacroEntities, plan \in Plans({"usermacro.get"}) :
           LET out == ZabbixMacro_name(S, m, plan)
           IN  Do("ZabbixMacro.read", "macro", m, None, <<>>, plan, out)

\* value = macro.value
ReadMacroValue ==
    /\ steps < MaxOps
    /\ \E m \in MacroEntities, plan \in Plans({"usermacro.get"}) :
           LET out == ZabbixMacro_value(S, m, plan)
           IN  Do("ZabbixMacro.read", "value", m, None, <<>>, plan, out)

\* macro.name = value
\* ZabbixMacro.name setter
SetMacroName ==
    /\ steps < MaxOps
    /\ \E m \in MacroEntities, value \in MacroNames,
          plan \in Plans({"usermacro.update"}) :
           LET s == S
               out ==
                   LET u == ZabbixMacro_update(s, m, [macro |-> value], plan)
                   IN  IF u.exc # "" THEN u
                       ELSE Ret([u.s EXCEPT !.z_macro[m].macro = value], None)
           IN  Do("ZabbixMacro.write", "macro", m, value, <<>>, plan, out)

\* macro.value = value
SetMacroValue ==
    /\ steps < MaxOps
    /\ \E m \in MacroEntities, value \in MacroValues,
          plan \in Plans({"usermacro.update"}) :
           LET out == ZabbixMacro_value_setter(S, m, value, plan)
           IN  Do("ZabbixMacro.write", "value", m, value, <<>>, plan, out)

\* macro = host.get_macro(name), in behaviours of one operation more: the
\* macros are materialized, one is renamed, and a name is looked up
GetMacro ==
    /\ steps < MaxOps + 1
    /\ \E macro \in MacroNames, plan \in Plans({"host.get", "usermacro.get"}) :
           LET out == ZabbixHost_get_macro(S, macro, plan)
           IN  Do("ZabbixHost.get_macro", "macros", 0, macro, <<>>, plan, out)

\* value = host.is_vip, in behaviours of one operation more: the
\* classification is read, a macro changes, and it is read again
\* ZabbixHost.is_vip
ReadIsVip ==
    /\ steps < MaxOps + 1
    /\ \E plan \in Plans({"host.get", "usermacro.get"}) :
           LET s == S
               out ==
                   LET r == ZabbixHost_get_VIP(s, plan)
                   IN  IF Truthy(s._vip) THEN Ret(s, s._vip)
                       ELSE IF r.exc # "" THEN r
                       ELSE Ret([r.s EXCEPT !._vip = r.ret], r.ret)
           IN  Do("ZabbixHost.is_vip", "_vip", 0, None, <<>>, plan, out)

-----------------------------------------------------------------------------
(* Operations on interfaces: an entity wraps each dict of the heap *)

InterfaceEntities == 1..Len(z_interface)

\* value = interface.dns, .hostid, .ip, .main, .port, .type, .useip
ReadInterfaceField ==
    /\ steps < MaxOps
    /\ \E i \in InterfaceEntities,
          f \in {"dns", "hostid", "ip", "main", "port", "type", "useip"},
          plan \in Plans({"hostinterface.get"}) :
           LET out == InterfaceField(S, i, f, f \notin {"dns", "ip"}, plan)
           IN  Do("ZabbixInterface.read", f, i, None, <<>>, plan, out)

\* interface.dns = value, interface.ip = value, interface.useip = value:
\* the setters of ZabbixInterface send the update and then store the value
SetInterfaceField ==
    /\ steps < MaxOps
    /\ \E i \in InterfaceEntities, f \in {"dns", "ip", "useip"},
          plan \in Plans({"hostinterface.update"}) :
         \E value \in (CASE f = "dns" -> {"''", "'a'"}
                         [] f = "ip" -> Names
                         [] OTHER -> Flags) :
           LET u == ZabbixInterface_update(S, i, f :> value, plan)
               out == IF u.exc # "" THEN u
                      ELSE Ret([u.s EXCEPT !.z_interface[i][f] = value], None)
           IN  Do("ZabbixInterface.write", f, i, value, <<>>, plan, out)

-----------------------------------------------------------------------------
(* Operations on a Trigger, an Event, and the deletion of the Host *)

\* deps = trigger.get_dependencies()
\* ZabbixTrigger.get_dependencies(): None, or a generator over the list (the
\* Triggers are constructed when the caller iterates).  The list returned is
\* the member of ref.
GetDependencies ==
    /\ steps < MaxOps
    /\ \E plan \in Plans({"trigger.get"}) :
           LET s == S
               out ==
                   LET r == IF ~TruthyList(s.z_trigger.dependencies)
                            THEN ZabbixTrigger_get(s, "dependencies", plan) ELSE Ret(s, None)
                   IN  IF r.exc # "" THEN r
                       ELSE IF ~TruthyList(r.s.z_trigger.dependencies) THEN Ret(r.s, None)
                       ELSE RetRef(r.s, r.s.z_trigger.dependencies)
           IN  Do("ZabbixTrigger.get_dependencies", "dependencies", 0, None, <<>>,
                  plan, out)

\* trigger.add_dependencies(id)
\* ZabbixTrigger.add_dependencies(depends_on_triggerid): not decorated.
\* trigger.adddependencies({triggerid, dependsOnTriggerid}): the server
\* refuses a dependency it already has
AddDependencies ==
    /\ steps < MaxOps
    /\ \E depends_on_triggerid \in {"6", "8"},
          plan \in Plans({"trigger.adddependencies"}) :
           LET s == S
               out ==
                   LET id == ZabbixTrigger_triggerid(s)
                       c == Called(s, "trigger.adddependencies")
                   IN  IF id.exc # "" THEN Raise(s, id.exc)
                       ELSE IF \/ plan["trigger.adddependencies"] = "fail"
                               \/ \E k \in 1..Len(c.zbx.dependencies) :
                                       c.zbx.dependencies[k] = Wire(depends_on_triggerid)
                       THEN Raise(c, "ZabbixAPIException")
                       ELSE Ret([c EXCEPT !.zbx.dependencies = Append(@, Wire(depends_on_triggerid))],
                                None)
           IN  Do("ZabbixTrigger.add_dependencies", "dependencies", 0, depends_on_triggerid, <<>>,
                  plan, out)

\* trigger.delete_dependencies()
DeleteDependencies ==
    /\ steps < MaxOps
    /\ \E plan \in Plans({"trigger.deleteDependencies"}) :
           LET out == ZabbixTrigger_delete_dependencies(S, plan)
           IN  Do("ZabbixTrigger.delete_dependencies", "dependencies", 0, None, <<>>,
                  plan, out)

\* events = trigger.get_last_events()
\* ZabbixTrigger.get_last_events(): a generator over the raw events that
\* _get_last_events() (not decorated) returns; each Event is fetched when
\* the caller iterates, and ref holds the raw list.
GetLastEvents ==
    /\ steps < MaxOps
    /\ \E plan \in Plans({"event.get"}) :
           LET s == S
               out ==
                   LET r == event_get(s, plan)
                   IN  IF r.exc # "" THEN r ELSE RetRef(r.s, {r.rows})
           IN  Do("ZabbixTrigger.get_last_events", "", 0, None, <<>>, plan, out)

\* value = event.acknowledged
\* ZabbixEvent.acknowledged
ReadAcknowledged ==
    /\ steps < MaxOps
    /\ \E plan \in Plans({"event.get"}) :
           LET s == S
               out ==
                   LET r == IF ~Truthy(s.z_event.acknowledged) THEN ZabbixEvent_get(s, plan)
                            ELSE Ret(s, None)
                       i == PyInt(r.s.z_event.acknowledged)
                   IN  IF r.exc # "" THEN r
                       ELSE IF i.exc # "" THEN Raise(r.s, i.exc) ELSE Ret(r.s, i.ret)
           IN  Do("ZabbixEvent.read", "acknowledged", 0, None, <<>>, plan, out)

\* event.ack(message)
\* ZabbixEvent.ack(message): not decorated; the debug record has no arguments.
\* event.acknowledge(eventids=id, action=.., message=..)
AckEvent ==
    /\ steps < MaxOps
    /\ \E plan \in Plans({"event.acknowledge"}) :
           LET s == S
               message == "'m'"
               out ==
                   LET c == Called(s, "event.acknowledge")
                   IN  IF plan["event.acknowledge"] = "fail" THEN Raise(c, "ZabbixAPIException")
                       ELSE Ret([c EXCEPT !.zbx.acknowledged = "'1'",
                                          !.z_event.acknowledged = "1"], "True")
           IN  Do("ZabbixEvent.ack", "acknowledged", 0, "'m'", <<>>, plan, out)

\* host.delete()
\* ZabbixHost.delete(): not decorated.
\* host.delete(hostid): the server forgets the host
DeleteHost ==
    /\ steps < MaxOps
    /\ \E plan \in Plans({"host.delete"}) :
           LET s == S
               out ==
                   LET c == Called(s, "host.delete")
                   IN  IF plan["host.delete"] = "fail" \/ c.zbx.hosts = <<>>
                       THEN Raise(c, "ZabbixAPIException")
                       ELSE Ret([c EXCEPT !.zbx.hosts = <<>>], None)
           IN  Do("ZabbixHost.delete", "", 0, None, <<>>, plan, out)

-----------------------------------------------------------------------------
(* Setters statement by statement: pc names the statement that runs next,   *)
(* and op gathers the calls of the statements run so far.                    *)

\* the machine state the next statement of the running setter starts in
Running == [S EXCEPT !.calls = op.calls, !.logs = op.logs]

\* One statement of a setter: as Do, and pc moves to the statement next (the
\* setter is left when the statement raised or was the last).
Statement(name, field, obj, arg, argd, plan, out, next) ==
    /\ steps' = IF pc = "" THEN steps + 1 ELSE steps
    /\ zbx' = out.s.zbx
    /\ z_host' = out.s.z_host
    /\ _macros' = out.s._macros
    /\ _interfaces' = out.s._interfaces
    /\ z_macro' = out.s.z_macro
    /\ z_interface' = out.s.z_interface
    /\ _vip' = out.s._vip
    /\ _groups' = out.s._groups
    /\ z_trigger' = out.s.z_trigger
    /\ z_event' = out.s.z_event
    /\ op' = [name |-> name, field |-> field, obj |-> obj, arg |-> arg,
              argd |-> argd, plan |-> Met(plan, out.s.calls), calls |-> out.s.calls,
              logs |-> out.s.logs, exc |-> out.exc, ret |-> out.ret,
              ref |-> out.ref]
    /\ pc' = IF out.exc # "" THEN "" ELSE next
    /\ UNCHANGED logLevel

\* host.status = value, first statement: self._update(status=value).  The
\* decorator ends the setter when the call raised.
SetStatusUpdate ==
    /\ pc = "" /\ steps < MaxOps
    /\ \E value \in Flags, plan \in Plans({"host.update"}) :
           LET out == ZabbixHost_update(S, [status |-> value], plan)
           IN  Statement("ZabbixHost.write", "status", 0, value, <<>>, plan,
                         zapi_exception("status change failed", out),
                         IF out.exc = "" THEN "status.store" ELSE "")

\* second statement: self._z_host['status'] = value
SetStatusStore ==
    /\ pc = "status.store"
    /\ LET out == Ret([Running EXCEPT !.z_host.status = op.arg], None)
       IN  Statement("ZabbixHost.write", "status", 0, op.arg, <<>>, op.plan, out, "")

\* host.inventory = value, first statement: log.info("...", self, ...)
SetInventoryLog ==
    /\ pc = "" /\ steps < MaxOps
    /\ \E value \in InventoryValues, plan \in Plans({"host.get"}) :
           LET out == Ret(LogSelf(S, "INFO", "changing inventory", plan), None)
           IN  Statement("ZabbixHost.write", "inventory", 0, None, value, plan, out,
                         "inventory.merge")

\* second statement: self._z_host['inventory'].update(value)
SetInventoryMerge ==
    /\ pc = "inventory.merge"
    /\ LET out == IF z_host.inventory = {} THEN Raise(Running, "KeyError")
                  ELSE Ret([Running EXCEPT !.z_host.inventory =
                                {DictUpdate(CHOOSE d \in z_host.inventory : TRUE,
                                            op.argd)}], None)
       IN  Statement("ZabbixHost.write", "inventory", 0, None, op.argd, op.plan, out,
                     "inventory.update")

\* third statement: self._update(inventory=self._z_host.get('inventory'))
SetInventoryUpdate ==
    /\ pc = "inventory.update"
    /\ \E plan \in {q \in Plans({"host.get", "host.update"}) :
                        q["host.get"] = op.plan["host.get"]} :
           LET out == ZabbixHost_update(Running,
                        [inventory |-> CHOOSE d \in z_host.inventory : TRUE], plan)
           IN  Statement("ZabbixHost.write", "inventory", 0, None, op.argd, plan,
                         zapi_exception("inventory update failed", out), "")

\* macro.value = value, first statement: self._update(value=value)
SetMacroValueUpdate ==
    /\ pc = "" /\ steps < MaxOps
    /\ \E m \in MacroEntities, value \in MacroValues,
          plan \in Plans({"usermacro.update"}) :
           LET out == ZabbixMacro_update(S, m, [value |-> value], plan)
           IN  Statement("ZabbixMacro.write", "value", m, value, <<>>, plan, out,
                         "value.store")

\* second statement: self._z_macro['value'] = value
SetMacroValueStore ==
    /\ pc = "value.store"
    /\ LET out == Ret([Running EXCEPT !.z_macro[op.obj].value = op.arg], None)
       IN  Statement("ZabbixMacro.write", "value", op.obj, op.arg, <<>>, op.plan,
                     out, "")

-----------------------------------------------------------------------------
(* Operations on the interfaces of a Host *)

\* interfaces = host.interfaces
ReadInterfaces ==
    /\ steps < MaxOps
    /\ \E plan \in Plans({"host.get"}) :
           LET out == ZabbixHost_interfaces(S, plan)
           IN  Do("ZabbixHost.read", "interfaces", 0, None, <<>>, plan, out)

\* groups = host.groups
\* ZabbixHost.groups: the list returned is s._groups of the outcome.  When
\* no group is cached the Host is fetched with output='macros',
\* selectMacros='extend' (lines 645-646), which brings the macros and no
\* key 'groups'; iterating self._z_host.get('groups') = None is a TypeError.
ReadGroups ==
    /\ steps < MaxOps
    /\ \E plan \in Plans({"host.get"}) :
           LET s == S
               raw(h) == IF "groups" \in DOMAIN h THEN h.groups ELSE {}
               r == IF ~TruthyList(raw(s.z_host))
                    THEN ZabbixHost_get(s, "macros", plan) ELSE Ret(s, None)
               out == IF TruthyList(s._groups) THEN Ret(s, None)
                      ELSE IF r.exc # "" THEN r
                      ELSE IF raw(r.s.z_host) = {} THEN Raise(r.s, "TypeError")
                      ELSE Ret([r.s EXCEPT !._groups = raw(r.s.z_host)], None)
           IN  Do("ZabbixHost.read", "groups", 0, None, <<>>, plan, out)

\* interface = host.get_main_interface()
GetMainInterface ==
    /\ steps < MaxOps
    /\ \E plan \in Plans({"host.get", "hostinterface.get"}) :
           LET out == ZabbixHost_get_main_interface(S, plan)
           IN  Do("ZabbixHost.get_main_interface", "interfaces", 0, None, <<>>,
                  plan, out)

\* ip = host.get_ip()
\* ZabbixHost.get_ip(): .ip of the main interface; None has no attribute ip
GetIp ==
    /\ steps < MaxOps
    /\ \E plan \in Plans({"host.get", "hostinterface.get"}) :
           LET s == S
               g == ZabbixHost_get_main_interface(s, plan)
               out ==
                   IF g.exc # "" THEN g
                   ELSE IF g.ref = {} THEN Raise(g.s, "AttributeError")
                   ELSE InterfaceField(g.s, CHOOSE i \in g.ref : TRUE, "ip", FALSE, plan)
           IN  Do("ZabbixHost.get_ip", "interfaces", 0, None, <<>>, plan, out)

-----------------------------------------------------------------------------
(* Construction of entities *)

\* the identifier of a record: the field is missing, None, empty, or set
Identifiers == {"missing", None, "''", "'5'"}

\* the identifier field each __init__ tests
IdField ==
    [ZabbixProxy |-> "proxyid", ZabbixGroup |-> "groupid",
     ZabbixMacro |-> "hostmacroid", ZabbixTemplate |-> "templateid",
     ZabbixInterface |-> "interfaceid", ZabbixHost |-> "hostid",
     ZabbixTrigger |-> "triggerid", ZabbixEvent |-> "eventid",
     ZabbixProblem |-> "eventid"]

\* the record of a class with the identifier id and the other fields rest
Record(cls, id, rest) ==
    LET fs == DOMAIN rest \cup (IF id = "missing" THEN {} ELSE {IdField[cls]})
    IN  [f \in fs |-> IF f \in DOMAIN rest THEN rest[f] ELSE id]

\* entity = Cls(zapi, record)
New ==
    /\ steps < MaxOps
    /\ \E cls \in DOMAIN IdField, id \in Identifiers :
           LET record == Record(cls, id, [name |-> "'n'"])
               out == init(S, cls, IdField[cls], record)
           IN  Do("new", cls, 0, id, <<record>>, [m \in Methods |-> "ok"], out)

\* group = ZabbixGroup.get_by_id(zapi, groupid), decorated
GroupGetById ==
    /\ steps < MaxOps
    /\ \E id \in Identifiers, plan \in Plans({"hostgroup.get"}) :
           LET z_group == Record("ZabbixGroup", id, [name |-> "'n'"])
               r == get_record(S, "hostgroup.get", z_group, plan)
               out == zapi_exception("group get failed",
                        IF r.exc # "" THEN r
                        ELSE IF r.rows = <<>> THEN Raise(r.s, "IndexError")
                        ELSE init(r.s, "ZabbixGroup", "groupid", r.rows[1]))
           IN  Do("get_by_id", "ZabbixGroup", 0, None, <<z_group>>, plan, out)

\* host = ZabbixHost.get_by_id(zapi, hostid), decorated
HostGetById ==
    /\ steps < MaxOps
    /\ \E id \in Identifiers, plan \in Plans({"host.get"}) :
           LET host == Record("ZabbixHost", id, [name |-> "'n'"])
               r == get_record(S, "host.get", host, plan)
               out == zapi_exception("host get failed",
                        IF r.exc # "" THEN r
                        ELSE IF r.rows = <<>> THEN Raise(r.s, "IndexError")
                        ELSE init(r.s, "ZabbixHost", "hostid", r.rows[1]))
           IN  Do("get_by_id", "ZabbixHost", 0, None, <<host>>, plan, out)

\* the trigger records of the session: with their host, or with none
TriggerRecords ==
    {Record("ZabbixTrigger", id, [hosts |-> hosts]) :
        id \in Identifiers,
        hosts \in {<<>>} \cup {<<Record("ZabbixHost", h, <<>>)>> : h \in Identifiers}}

\* trigger = ZabbixTrigger.get_by_id(zapi, triggerid)
TriggerGetById ==
    /\ steps < MaxOps
    /\ \E trigger \in TriggerRecords, plan \in Plans({"trigger.get"}) :
           LET out == ZabbixTrigger_get_by_id(S, trigger, plan)
           IN  Do("get_by_id", "ZabbixTrigger", 0, None, <<trigger>>, plan, out)

\* event = ZabbixEvent.get_by_id(zapi, eventid)
EventGetById ==
    /\ steps < MaxOps
    /\ \E id \in Identifiers, trigger \in TriggerRecords,
          plan \in Plans({"event.get", "trigger.get"}) :
           LET event == Record("ZabbixEvent", id, [objectid |-> TriggerId])
               out == event_get_by_id(S, "ZabbixEvent", "event.get", event, trigger, plan)
           IN  Do("get_by_id", "ZabbixEvent", 0, None, <<event, trigger>>, plan, out)

\* problem = ZabbixProblem.get_by_id(zapi, eventid)
ProblemGetById ==
    /\ steps < MaxOps
    /\ \E id \in Identifiers, trigger \in TriggerRecords,
          plan \in Plans({"problem.get", "trigger.get"}) :
           LET event == Record("ZabbixProblem", id, [objectid |-> TriggerId])
               out == event_get_by_id(S, "ZabbixProblem", "problem.get", event, trigger, plan)
           IN  Do("get_by_id", "ZabbixProblem", 0, None, <<event, trigger>>, plan, out)

-----------------------------------------------------------------------------
(* The problem factory *)

\* Raw records the remote problem.get returns, at most.
MaxRecords == 4

\* the lists of raw problems of the session
ProblemRecords == {[k \in 1..n |-> [eventid |-> EventId]] : n \in 0..MaxRecords}

Limits == 1..MaxRecords

\* problems = factory.get_by_tag(tag, limit=N)
\* from ZabbixFactory import ZabbixProblemFactory;
\* list(ZabbixProblemFactory(zapi).get_by_tag(tag, limit)) when a generator
\* is returned
GetByTag ==
    /\ steps < MaxOps
    /\ \E tag \in {"'t'", "'u'"}, limit \in Limits, records \in ProblemRecords,
          plan \in Plans({"problem.get", "event.get"}) :
           LET z == ZabbixProblemFactory_get(S, records, plan)
               out ==
                   IF ZabbixFactory_import(S).exc # "" THEN ZabbixFactory_import(S)
                   ELSE IF z.exc # "" THEN z
                   ELSE IF "rows" \notin DOMAIN z THEN Ret(z.s, None)
                   ELSE IF Len(z.rows) >= limit THEN Ret(z.s, None)
                   ELSE Drained(z.s, z.rows, plan)
           IN  Do("ZabbixProblemFactory.get_by_tag", "problems", limit, tag,
                  records, plan, out)

\* problems = factory.get_by_groupids(groupids, limit=N)
\* the same with get_by_groupids(groupids, limit)
GetByGroupids ==
    /\ steps < MaxOps
    /\ \E groupids \in {None, "[10]"}, limit \in Limits, records \in ProblemRecords,
          plan \in Plans({"problem.get", "event.get"}) :
           LET z == ZabbixProblemFactory_get(S, records, plan)
               out ==
                   IF ZabbixFactory_import(S).exc # "" THEN ZabbixFactory_import(S)
                   ELSE IF z.exc # "" THEN z
                   ELSE IF "rows" \notin DOMAIN z THEN Raise(z.s, "TypeError")
                   ELSE IF Len(z.rows) >= limit THEN Ret(z.s, None)
                   ELSE Drained(z.s, z.rows, plan)
           IN  Do("ZabbixProblemFactory.get_by_groupids", "problems", limit, groupids,
                  records, plan, out)

-----------------------------------------------------------------------------
(* The host and trigger factories.  Every operation starts with the import  *)
(* of src/ZabbixFactory.py; op.arg records what the session answers to the  *)
(* get of the operation.                                                    *)

\* the lists of raw hosts of the session
HostLists == {[k \in 1..n |-> [hostid |-> HostId]] : n \in 0..MaxRecords}

\* hosts = list(ZabbixHostFactory(zapi).<method>(...)) for get_by_filter,
\* get_by_name, get_by_group and search: __get (decorated) calls host.get once
\* and returns the list, or None when the call failed; the generator
\* expression takes iter() of it when the method is called (iter(None) is a
\* TypeError) and runs __make, the constructor of ZabbixHost, for one record
\* at each step of the iteration.
HostFactoryBulk ==
    /\ steps < MaxOps
    /\ \E method \in {"get_by_filter", "get_by_name", "get_by_group", "search"},
          z_hosts \in HostLists, plan \in Plans({"host.get"}) :
           LET c == Called(S, "host.get")
               z == zapi_exception("host get failed",
                        CASE plan["host.get"] = "fail" -> Raise(c, "ZabbixAPIException")
                          [] plan["host.get"] = "empty" -> Rows(c, <<>>)
                          [] OTHER -> Rows(c, z_hosts))
               made[k \in 0..Len(z.rows)] ==
                   IF k = 0 THEN RetRef(z.s, {<<>>})
                   ELSE IF made[k - 1].exc # "" THEN made[k - 1]
                   ELSE IF init(z.s, "ZabbixHost", "hostid", z.rows[k]).exc # ""
                        THEN init(z.s, "ZabbixHost", "hostid", z.rows[k])
                   ELSE RetRef(z.s, {Append(CHOOSE l \in made[k - 1].ref : TRUE,
                                            "ZabbixHost")})
               out == IF ZabbixFactory_import(S).exc # "" THEN ZabbixFactory_import(S)
                      ELSE IF "rows" \notin DOMAIN z THEN Raise(z.s, "TypeError")
                      ELSE made[Len(z.rows)]
           IN  Do("ZabbixHostFactory." \o method, "hosts", 0, plan["host.get"],
                  z_hosts, plan, out)

\* host = ZabbixHostFactory(zapi).get_by_id(hostid): not decorated; [0] of
\* the list __get returns (of None a TypeError, of an empty list an
\* IndexError), then __make
HostFactoryGetById ==
    /\ steps < MaxOps
    /\ \E id \in Identifiers, plan \in Plans({"host.get"}) :
           LET host == Record("ZabbixHost", id, [name |-> "'n'"])
               z == zapi_exception("host get failed",
                        get_record(S, "host.get", host, plan))
               out == IF ZabbixFactory_import(S).exc # "" THEN ZabbixFactory_import(S)
                      ELSE IF "rows" \notin DOMAIN z THEN Raise(z.s, "TypeError")
                      ELSE IF z.rows = <<>> THEN Raise(z.s, "IndexError")
                      ELSE init(z.s, "ZabbixHost", "hostid", z.rows[1])
           IN  Do("ZabbixHostFactory.get_by_id", "ZabbixHost", 0, plan["host.get"],
                  <<host>>, plan, out)

\* trigger = ZabbixTriggerFactory(zapi).get_by_id(triggerid): [0] of the list
\* __get returns, then __make: int(trigger['triggerid']),
\* _get_host_by_triggerid (trigger.get again, [0]['hosts'][0]), the Host and
\* the Trigger are constructed
TriggerFactoryGetById ==
    /\ steps < MaxOps
    /\ \E trigger \in TriggerRecords, plan \in Plans({"trigger.get"}) :
           LET z == zapi_exception("trigger host get failed",
                        get_record(S, "trigger.get", trigger, plan))
               h == zapi_exception("trigger host get failed",
                        get_record(z.s, "trigger.get", trigger, plan))
               out ==
                   IF ZabbixFactory_import(S).exc # "" THEN ZabbixFactory_import(S)
                   ELSE IF "rows" \notin DOMAIN z THEN Raise(z.s, "TypeError")
                   ELSE IF z.rows = <<>> THEN Raise(z.s, "IndexError")
                   ELSE IF "triggerid" \notin DOMAIN z.rows[1] THEN Raise(z.s, "KeyError")
                   ELSE IF PyInt(z.rows[1].triggerid).exc # ""
                        THEN Raise(z.s, PyInt(z.rows[1].triggerid).exc)
                   ELSE IF "rows" \notin DOMAIN h THEN Raise(h.s, "TypeError")
                   ELSE IF h.rows = <<>> \/ h.rows[1].hosts = <<>>
                        THEN Raise(h.s, "IndexError")
                   ELSE IF init(h.s, "ZabbixHost", "hostid", h.rows[1].hosts[1]).exc # ""
                        THEN init(h.s, "ZabbixHost", "hostid", h.rows[1].hosts[1])
                   ELSE init(h.s, "ZabbixTrigger", "triggerid", z.rows[1])
           IN  Do("ZabbixTriggerFactory.get_by_id", "ZabbixTrigger", 0,
                  plan["trigger.get"], <<trigger>>, plan, out)

-----------------------------------------------------------------------------
(* Initial states: the remote records, and the objects as constructed *)

LogLevels == {"INFO", "WARNING", "OFF"}

RemoteHost == [hostid |-> HostId, host |-> "'a'", name |-> "'b'",
               status |-> "'0'", proxy_hostid |-> "'0'"]
RemoteInventory == [os |-> "'x'", location |-> "'y'"]
RemoteInterface == [interfaceid |-> 1, dns |-> "''", hostid |-> HostId,
                    ip |-> "'a'", main |-> "'1'", port |-> "'1'",
                    type |-> "'1'", useip |-> "'1'"]

\* the macro lists the remote host may start with: distinct names, ids 1..n
RemoteMacros ==
    UNION {
        {q \in [1..n -> [hostmacroid : 1..n, macro : MacroNames,
                         value : {"''", "'1'"}, hostid : {HostId}]] :
            /\ \A k \in 1..n : q[k].hostmacroid = k
            /\ \A j, k \in 1..n : j # k => q[j].macro # q[k].macro}
        : n \in 0..MaxMacros}

Zbx(macros, interfaces) ==
    [host |-> RemoteHost, inventory |-> RemoteInventory, macros |-> macros,
     interfaces |-> interfaces, nextid |-> Len(macros) + 1,
     hosts |-> <<HostId>>, dependencies |-> <<>>, acknowledged |-> "'0'"]

\* ZabbixHost.__init__ leaves _vip and _groups None; a Trigger and an Event constructed
\* from their identifiers alone
NewTrigger == [triggerid |-> TriggerId, dependencies |-> {}]
NewEvent == [eventid |-> EventId, acknowledged |-> None]
NoIncident ==
    /\ _vip = None /\ _groups = {}
    /\ z_trigger = NewTrigger /\ z_event = NewEvent /\ pc = ""

\* ZabbixHost.__init__(zapi, host): the record given becomes the cache; the
\* collections start empty
NewHost(scalars, inventory, macros) ==
    [hostid |-> HostId, host |-> scalars.host, name |-> scalars.name,
     status |-> scalars.status, proxy_hostid |-> scalars.proxy_hostid,
     inventory |-> inventory, macros |-> macros, interfaces |-> {}]

\* A Host constructed from the identifier alone, from the record the server
\* holds, or from a record that holds some fields, current or out of date;
\* with no inventory or with the inventory the server holds.
InitHost ==
    /\ logLevel \in LogLevels
    /\ zbx = Zbx(<<>>, <<>>)
    /\ \E scalars \in
            {[host |-> None, name |-> None, status |-> None, proxy_hostid |-> None],
             [host |-> "'a'", name |-> "'b'", status |-> "'0'", proxy_hostid |-> "'0'"],
             [host |-> None, name |-> "'old'", status |-> None, proxy_hostid |-> None],
             [host |-> "'a'", name |-> None, status |-> "'1'", proxy_hostid |-> None]},
          inventory \in {{}, {RemoteInventory}} :
            z_host = NewHost(scalars, inventory, {})
    /\ _macros = <<>> /\ _interfaces = <<>>
    /\ z_macro = <<>> /\ z_interface = <<>>
    /\ NoIncident
    /\ op = NoOp /\ steps = 0

\* a Host constructed from its identifier alone, or from a record fetched
\* with its macros
InitMacro ==
    /\ logLevel \in LogLevels
    /\ \E macros \in RemoteMacros, withMacros \in BOOLEAN :
        /\ zbx = Zbx(macros, <<>>)
        /\ z_macro = IF withMacros THEN macros ELSE <<>>
        /\ \E scalars \in {[f \in HostScalars |-> None],
                           [f \in HostScalars |-> RemoteHost[f]]} :
            z_host = NewHost(scalars, {},
                        IF withMacros THEN {[k \in 1..Len(macros) |-> k]} ELSE {})
    /\ _macros = <<>> /\ _interfaces = <<>>
    /\ z_interface = <<>>
    /\ NoIncident
    /\ op = NoOp /\ steps = 0

\* ZabbixInterface.__init__(zapi, interface): an Interface constructed from
\* the identifier alone, from the record the server holds, or from a record
\* out of date
InitInterface ==
    /\ logLevel = "WARNING"
    /\ zbx = Zbx(<<>>, <<RemoteInterface>>)
    /\ z_host = NewHost([f \in HostScalars |-> None], {}, {})
    /\ _macros = <<>> /\ _interfaces = <<>>
    /\ z_macro = <<>>
    /\ \E r \in
            {[interfaceid |-> 1, dns |-> None, hostid |-> None, ip |-> None,
              main |-> None, port |-> None, type |-> None, useip |-> None],
             RemoteInterface,
             [interfaceid |-> 1, dns |-> "'old'", hostid |-> None, ip |-> "'old'",
              main |-> "'1'", port |-> None, type |-> None, useip |-> None]} :
            z_interface = <<r>>
    /\ NoIncident
    /\ op = NoOp /\ steps = 0

\* the dependency lists the remote trigger may have
RemoteDependencies == {<<>>, <<"'8'">>, <<"'8'", "'6'">>}

\* ZabbixTrigger.__init__(host, trigger), ZabbixEvent.__init__(trigger,
\* event): from the identifier alone, or from a record fetched earlier
InitIncident ==
    /\ logLevel = "WARNING"
    /\ \E deps \in RemoteDependencies :
            zbx = [Zbx(<<>>, <<>>) EXCEPT !.dependencies = deps]
    /\ z_host = NewHost([f \in HostScalars |-> None], {}, {})
    /\ _macros = <<>> /\ _interfaces = <<>>
    /\ z_macro = <<>> /\ z_interface = <<>>
    /\ _vip = None /\ _groups = {} /\ pc = ""
    /\ \E cached \in {{}} \cup {{d} : d \in RemoteDependencies} :
            z_trigger = [NewTrigger EXCEPT !.dependencies = cached]
    /\ \E a \in {None, "'0'", "'1'"} :
            z_event = [NewEvent EXCEPT !.acknowledged = a]
    /\ op = NoOp /\ steps = 0

\* no entity constructed yet
InitConstruction ==
    /\ logLevel = "WARNING"
    /\ zbx = Zbx(<<>>, <<>>)
    /\ z_host = NewHost([f \in HostScalars |-> None], {}, {})
    /\ _macros = <<>> /\ _interfaces = <<>>
    /\ z_macro = <<>> /\ z_interface = <<>>
    /\ NoIncident
    /\ op = NoOp /\ steps = 0

\* a Host constructed from its identifier alone whose server record has
\* the two macros of the classification, in either order, or only {$IS_VIP}
InitVip ==
    /\ logLevel = "WARNING"
    /\ \E macros \in
            {[k \in 1..2 |-> [hostmacroid |-> k, macro |-> names[k],
                              value |-> values[k], hostid |-> HostId]] :
                names \in {<<IS_SVIP, IS_VIP>>, <<IS_VIP, IS_SVIP>>},
                values \in [1..2 -> {"''", "'0'", "'1'"}]}
            \cup {<<[hostmacroid |-> 1, macro |-> IS_VIP,
                     value |-> "'1'", hostid |-> HostId]>>} :
            zbx = Zbx(macros, <<>>)
    /\ z_host = NewHost([f \in HostScalars |-> None], {}, {})
    /\ _macros = <<>> /\ _interfaces = <<>>
    /\ z_macro = <<>> /\ z_interface = <<>>
    /\ NoIncident
    /\ op = NoOp /\ steps = 0

\* Interfaces of the remote host.
MaxInterfaces == 3

\* the interface lists of the remote host: MaxInterfaces interfaces in every
\* order, each main or not, the one with id k having the k-th ip
RemoteInterfaces ==
    {[k \in 1..MaxInterfaces |->
        [RemoteInterface EXCEPT !.interfaceid = order[k],
                                !.ip = <<"'a'", "'b'", "'c'", "'d'", "'e'">>[order[k]],
                                !.main = mains[order[k]]]] :
        order \in {o \in [1..MaxInterfaces -> 1..MaxInterfaces] :
                        \A j, k \in 1..MaxInterfaces : j # k => o[j] # o[k]},
        mains \in [1..MaxInterfaces -> {"'0'", "'1'"}]}

\* a Host constructed from its identifier alone, or from a record fetched
\* with its interfaces
InitInterfaces ==
    /\ logLevel = "WARNING"
    /\ \E interfaces \in RemoteInterfaces, withInterfaces \in BOOLEAN :
        /\ zbx = Zbx(<<>>, interfaces)
        /\ z_interface = IF withInterfaces THEN interfaces ELSE <<>>
        /\ z_host = [NewHost([f \in HostScalars |-> None], {}, {}) EXCEPT
                        !.interfaces = IF withInterfaces
                                       THEN {[k \in 1..Len(interfaces) |-> k]} ELSE {}]
    /\ _macros = <<>> /\ _interfaces = <<>>
    /\ z_macro = <<>>
    /\ NoIncident
    /\ op = NoOp /\ steps = 0

\* a Host constructed with no inventory, with the inventory the server
\* holds, with one that is out of date, or with one of a single field
InitInventory ==
    /\ logLevel \in LogLevels
    /\ zbx = Zbx(<<>>, <<>>)
    /\ \E scalars \in {[f \in HostScalars |-> None],
                       [f \in HostScalars |-> RemoteHost[f]]},
          inventory \in {{}, {RemoteInventory},
                         {[os |-> "'x'", location |-> "'old'"]},
                         {[location |-> "'old'"]}} :
            z_host = NewHost(scalars, inventory, {})
    /\ _macros = <<>> /\ _interfaces = <<>>
    /\ z_macro = <<>> /\ z_interface = <<>>
    /\ NoIncident
    /\ op = NoOp /\ steps = 0

\* a Host with or without its inventory, and the Macros of host.macros
\* when it was fetched with its macros
InitStatements ==
    /\ logLevel \in {"INFO", "WARNING"}
    /\ \E macros \in RemoteMacros, withMacros \in BOOLEAN :
        /\ zbx = Zbx(macros, <<>>)
        /\ z_macro = IF withMacros THEN macros ELSE <<>>
        /\ _macros = IF withMacros THEN [k \in 1..Len(macros) |-> k] ELSE <<>>
        /\ \E scalars \in {[f \in HostScalars |-> None],
                           [f \in HostScalars |-> RemoteHost[f]]},
              inventory \in {{}, {RemoteInventory}} :
            z_host = NewHost(scalars, inventory,
                        IF withMacros THEN {[k \in 1..Len(macros) |-> k]} ELSE {})
    /\ _interfaces = <<>> /\ z_interface = <<>>
    /\ NoIncident
    /\ op = NoOp /\ steps = 0

\* as InitMacro, with one logging configuration
InitGetMacro == InitMacro /\ logLevel = "WARNING"

\* the groups the remote host belongs to
RemoteGroups == <<[groupid |-> "'2'", name |-> "'g'"]>>

\* A Host constructed from its identifier alone, or from a record fetched
\* with its groups; its macros not read yet, or read and one more macro
\* created since by update_or_create_macro (the last of the server's list:
\* the upsert leaves the raw list and the collection as they were and wraps
\* the identifier of the new macro in a dict of its own).
InitCollections ==
    /\ logLevel = "WARNING"
    /\ \E macros \in RemoteMacros, interfaces \in {<<>>, <<RemoteInterface>>},
          created \in BOOLEAN, withGroups \in BOOLEAN :
        LET n == Len(macros)
            host == NewHost([f \in HostScalars |-> None], {},
                        IF created THEN {[k \in 1..n - 1 |-> k]} ELSE {})
        IN  /\ created => n >= 1
            /\ zbx = Zbx(macros, interfaces)
            /\ z_macro =
                 IF created
                 THEN Append(SubSeq(macros, 1, n - 1),
                             [hostmacroid |-> n, macro |-> None, value |-> None,
                              hostid |-> None])
                 ELSE <<>>
            /\ _macros = IF created THEN [k \in 1..n - 1 |-> k] ELSE <<>>
            /\ z_host = IF withGroups
                        THEN DictUpdate(host, [groups |-> {RemoteGroups}])
                        ELSE host
    /\ _interfaces = <<>> /\ z_interface = <<>>
    /\ NoIncident
    /\ op = NoOp /\ steps = 0


Init == InitHost \/ InitMacro \/ InitInterface

\* a Host, a Macro, an Interface, a Trigger or an Event, as constructed
InitHydration == InitHost \/ InitMacro \/ InitInterface \/ InitIncident

-----------------------------------------------------------------------------
(* Specifications *)

Next ==
    \/ ReadHost \/ ReadName \/ ReadStatus \/ ReadProxyHostid \/ SetHost
    \/ SetName \/ SetStatus \/ SetProxyHostid \/ ReadInventory
    \/ SetInventory \/ ReadMacros \/ UpdateOrCreateMacro
    \/ ReadMacroHostid \/ ReadMacroName \/ ReadMacroValue \/ SetMacroName
    \/ SetMacroValue \/ ReadInterfaceField \/ SetInterfaceField

\* every entity and every operation
Spec == Init /\ [][Next]_vars
\* a Host, its scalar fields and its inventory
SpecHost ==
    /\ InitHost
    /\ [][\/ ReadHost \/ ReadName \/ ReadStatus \/ ReadProxyHostid
          \/ SetHost \/ SetName \/ SetStatus \/ SetProxyHostid
          \/ ReadInventory \/ SetInventory]_vars
\* a Host, its macros and the upsert
SpecMacro ==
    /\ InitMacro
    /\ [][\/ ReadMacros \/ UpdateOrCreateMacro \/ ReadMacroHostid
          \/ ReadMacroName \/ ReadMacroValue \/ SetMacroName
          \/ SetMacroValue]_vars
\* an Interface
SpecInterface ==
    InitInterface /\ [][ReadInterfaceField \/ SetInterfaceField]_vars
\* a Trigger and its dependencies, an Event, the deletion of the Host
SpecIncident ==
    /\ InitIncident
    /\ [][\/ GetDependencies \/ AddDependencies \/ DeleteDependencies
          \/ GetLastEvents \/ ReadAcknowledged \/ AckEvent \/ DeleteHost
          \/ ReadName]_vars
\* the constructors and the get_by_id class methods
SpecConstruction ==
    /\ InitConstruction
    /\ [][\/ New \/ GroupGetById \/ HostGetById \/ TriggerGetById
          \/ EventGetById \/ ProblemGetById]_vars
\* the status, inventory and macro value setters, one statement a step
SpecStatements ==
    /\ InitStatements
    /\ [][\/ SetStatusUpdate \/ SetStatusStore \/ SetInventoryLog
          \/ SetInventoryMerge \/ SetInventoryUpdate
          \/ SetMacroValueUpdate \/ SetMacroValueStore]_vars
\* a Host and its inventory, cached up to date or out of date
SpecInventory == InitInventory /\ [][ReadInventory \/ SetInventory]_vars
\* a Host, its interface collection and the address of the main interface
SpecInterfaces ==
    /\ InitInterfaces
    /\ [][\/ ReadInterfaces \/ GetMainInterface \/ GetIp
          \/ SetInterfaceField]_vars
\* a Host, its macro collection and the lookup of a macro by name
SpecGetMacro ==
    InitGetMacro /\ [][GetMacro \/ ReadMacros \/ SetMacroName]_vars
\* a Host, its VIP classification and the macros it is computed from
SpecVip ==
    InitVip /\ [][ReadIsVip \/ SetMacroValue]_vars
\* the problem factory of src/ZabbixFactory.py
SpecFactory ==
    InitConstruction /\ [][GetByTag \/ GetByGroupids]_vars
\* the accessors that hydrate a cache, and the deletion of dependencies
SpecHydration ==
    /\ InitHydration
    /\ [][\/ ReadHost \/ ReadName \/ ReadStatus \/ ReadProxyHostid
          \/ ReadInventory \/ ReadMacros \/ ReadInterfaces \/ ReadGroups
          \/ ReadMacroHostid \/ ReadMacroName \/ ReadMacroValue
          \/ ReadInterfaceField \/ GetDependencies \/ DeleteDependencies
          \/ ReadAcknowledged]_vars
\* a Host and its relationship collections: macros, interfaces, groups
SpecCollections ==
    InitCollections /\ [][ReadMacros \/ ReadInterfaces \/ ReadGroups]_vars
\* the host, trigger and problem factories of src/ZabbixFactory.py
SpecFactories ==
    /\ InitConstruction
    /\ [][\/ HostFactoryBulk \/ HostFactoryGetById \/ TriggerFactoryGetById
          \/ GetByTag \/ GetByGroupids]_vars

-----------------------------------------------------------------------------
(* Claims.  A step of a specification is one operation: op' records it, the  *)
(* unprimed variables are the objects before it, the primed ones after it.   *)

Failed(o, m) == o.plan[m] = "fail"
Emptied(o, m) == o.plan[m] = "empty"
Count(calls, ms) == Cardinality({k \in 1..Len(calls) : calls[k] \in ms})
AllOk(o) == \A m \in Methods : o.plan[m] = "ok"

\* C1: when the remote update call of a Macro setter (name, value) or of an
\* Interface setter (dns, ip, useip) fails, the entity's cached value of the
\* field after the setter equals its cached value before the setter.
C1_FailedChildSetterKeepsCache ==
    [][/\ (op'.name = "ZabbixMacro.write" /\ Failed(op', "usermacro.update")
            => z_macro'[op'.obj][op'.field] = z_macro[op'.obj][op'.field])
       /\ (op'.name = "ZabbixInterface.write" /\ Failed(op', "hostinterface.update")
            => z_interface'[op'.obj][op'.field] = z_interface[op'.obj][op'.field])
      ]_vars

HostSetterFailed(o) ==
    /\ o.name = "ZabbixHost.write"
    /\ o.field \in HostScalars
    /\ Failed(o, "host.update")

C3_FailedInventorySetterKeepsCache ==
    [][op'.name = "ZabbixHost.write" /\ op'.field = "inventory"
         /\ Failed(op', "host.update")
        => z_host'.inventory = z_host.inventory]_vars

Upsert == "ZabbixHost.update_or_create_macro"
MacroWrites == {"usermacro.create", "usermacro.update"}

\* C4: two calls in a row of update_or_create_macro with the same name and
\* value issue at most one remote write call in total, and the second call
\* issues none.  Stated where no remote call fails.
C4_UpsertTwiceWritesOnce ==
    [][op.name = Upsert /\ op'.name = Upsert /\ AllOk(op)
         /\ op'.field = op.field /\ op'.arg = op.arg
         /\ ~Failed(op', "usermacro.get") /\ ~Failed(op', "host.get")
         /\ ~Emptied(op', "usermacro.get") /\ ~Emptied(op', "host.get")
        => /\ Count(op.calls, MacroWrites) + Count(op'.calls, MacroWrites) <= 1
           /\ Count(op'.calls, MacroWrites) = 0]_vars

\* C5: after update_or_create_macro(name, V), update_or_create_macro(name, V2)
\* with V2 different from V issues exactly one usermacro.update call and no
\* usermacro.create call.  Stated where no remote call of the first fails and
\* no get of the second fails.
C5_UpsertNewValueUpdatesOnce ==
    [][op.name = Upsert /\ op'.name = Upsert /\ AllOk(op)
         /\ op'.field = op.field /\ op'.arg # op.arg
         /\ ~Failed(op', "usermacro.get") /\ ~Failed(op', "host.get")
         /\ ~Emptied(op', "usermacro.get") /\ ~Emptied(op', "host.get")
        => /\ Count(op'.calls, {"usermacro.update"}) = 1
           /\ Count(op'.calls, {"usermacro.create"}) = 0]_vars

\* the first macro of the materialized collection that has the name
FirstWithName(name) ==
    {_macros[k] : k \in {j \in 1..Len(_macros) :
        /\ z_macro[_macros[j]].macro = name
        /\ \A i \in 1..(j - 1) : z_macro[_macros[i]].macro # name}}

\* C6: update_or_create_macro(name, value) makes no remote call when the
\* materialized collection holds a macro of that name whose cached value
\* equals the given value.
C6_UpsertEqualValueCallsNothing ==
    [][op'.name = Upsert
         /\ (\E m \in FirstWithName(op'.field) : z_macro[m].value = op'.arg)
        => op'.calls = <<>>]_vars

Reads == {"ZabbixHost.read", "ZabbixMacro.read", "ZabbixInterface.read"}

\* the entity dict an operation on a scalar field works on, in the state
\* with Host dict h, macro heap ms and interface heap is
DictOf(o, h, ms, is) ==
    CASE o.name \in {"ZabbixMacro.read", "ZabbixMacro.write"} -> ms[o.obj]
      [] o.name \in {"ZabbixInterface.read", "ZabbixInterface.write"} -> is[o.obj]
      [] OTHER -> h

ScalarRead(o) == o.name \in Reads /\ o.field \notin {"inventory", "macros"}

\* what an accessor makes of the cached value v of field f
Returned(f, v) ==
    IF f \in {"status", "hostid", "main", "port", "type", "useip"}
    THEN PyInt(v).ret ELSE v

\* C7: reading a field that is present in the entity's local cache, whatever
\* its value, issues no remote call and returns the cached value.
C7_CachedFieldReadCallsNothing ==
    [][ScalarRead(op') /\ DictOf(op', z_host, z_macro, z_interface)[op'.field] # None
        => /\ op'.calls = <<>>
           /\ op'.ret = Returned(op'.field,
                    DictOf(op', z_host, z_macro, z_interface)[op'.field])]_vars

\* the scalar fields of the entity an operation works on
ScalarFields(o) ==
    CASE o.name \in {"ZabbixMacro.read", "ZabbixMacro.write"} ->
            {"macro", "value", "hostid"}
      [] o.name \in {"ZabbixInterface.read", "ZabbixInterface.write"} ->
            {"dns", "hostid", "ip", "main", "port", "type", "useip"}
      [] OTHER -> HostScalars \cup {"hostid"}

\* the remote get that hydrates the entity an operation works on
GetOf(o) ==
    CASE o.name \in {"ZabbixMacro.read", "ZabbixMacro.write"} -> "usermacro.get"
      [] o.name \in {"ZabbixInterface.read", "ZabbixInterface.write"} ->
            "hostinterface.get"
      [] OTHER -> "host.get"

\* the record the server holds of the entity an operation works on
ServerOf(o) ==
    CASE o.name \in {"ZabbixMacro.read", "ZabbixMacro.write"} ->
            zbx.macros[Index(zbx.macros, "hostmacroid", z_macro[o.obj].hostmacroid)]
      [] o.name \in {"ZabbixInterface.read", "ZabbixInterface.write"} ->
            zbx.interfaces[Index(zbx.interfaces, "interfaceid",
                                 z_interface[o.obj].interfaceid)]
      [] OTHER -> zbx.host

\* the read o is of a field the entity's cache does not hold
NeverFetched(o, h, ms, is) == ScalarRead(o) /\ DictOf(o, h, ms, is)[o.field] = None

C9_EmptyHydrationReturnsAbsent ==
    [][ScalarRead(op') /\ Emptied(op', GetOf(op'))
        => /\ op'.exc = ""
           /\ op'.ret = None
           /\ DictOf(op', z_host', z_macro', z_interface')
                = DictOf(op', z_host, z_macro, z_interface)]_vars

\* the message a decorated method passes to the decorator, by the remote
\* method it calls; host.update is called by the decorated setters of field f
DecoratorMessage(m, f) ==
    CASE m = "host.get" -> "host data get failed"
      [] m = "usermacro.get" -> "macro data get failed"
      [] m = "usermacro.update" -> "macro data update failed"
      [] m = "usermacro.create" -> "macro create failed"
      [] m = "hostinterface.get" -> "interface data get failed"
      [] m = "hostinterface.update" -> "interface data update failed"
      [] m = "host.update" /\ f = "status" -> "status change failed"
      [] m = "host.update" /\ f = "proxy_hostid" -> "move to proxy failed"
      [] m = "host.update" /\ f = "inventory" -> "inventory update failed"

\* the operations that are one call of a decorated method calling host.update
DecoratedHostSetter(o) ==
    o.name = "ZabbixHost.write" /\ o.field \in {"status", "proxy_hostid", "inventory"}

\* the remote methods whose callers in an operation are decorated methods
DecoratedCalls(o) ==
    IF o.name = "ZabbixHost.write" /\ ~DecoratedHostSetter(o)
    THEN Methods \ {"host.update"} ELSE Methods

\* C10: when the remote call of a decorated method raises the API exception,
\* the method logs the failure under its message, the exception leaves no
\* operation, and a decorated setter of the Host returns None.
C10_DecoratorContainsApiException ==
    /\ op.exc # "ZabbixAPIException"
    /\ \A m \in DecoratedCalls(op) :
        Failed(op, m) =>
            \E k \in 1..Len(op.logs) :
                op.logs[k] = <<"ERROR", DecoratorMessage(m, op.field)>>
    /\ DecoratedHostSetter(op) /\ Failed(op, "host.update")
        => op.exc = "" /\ op.ret = None /\ op.ref = {}

\* C10 witness: the status setter whose host.update failed returned None and
\* logged the failure.
C10_Witness ==
    /\ op.name = "ZabbixHost.write" /\ op.field = "status"
    /\ Failed(op, "host.update")
    /\ op.exc = "" /\ op.ret = None
    /\ op.logs = <<<<"ERROR", "status change failed">>>>

-----------------------------------------------------------------------------
(* Claims about Triggers, Events and the other operations of a Host *)

\* C11: every operation of an entity that issues a remote call (Event.ack,
\* Host.delete, Trigger.add_dependencies, Trigger.get_last_events, the
\* accessors and setters) contains a remote failure: no exception other than
\* the construction error (KeyError) leaves the operation.
C11_NoExceptionPropagates == op.exc \in {"", "KeyError"}

\* the records that reached a constructor in an operation: the record itself
\* for a direct construction; for a get_by_id whose remote calls all returned
\* their record, the records returned (a Trigger record brings its Host's)
Constructed(o) ==
    CASE o.name = "new" -> {<<o.field, o.argd[1]>>}
      [] o.name = "get_by_id" /\ AllOk(o) /\ o.field \in {"ZabbixGroup", "ZabbixHost"} ->
            {<<o.field, o.argd[1]>>}
      [] o.name = "get_by_id" /\ AllOk(o) /\ o.field = "ZabbixTrigger"
            /\ o.argd[1].hosts # <<>> ->
            {<<"ZabbixTrigger", o.argd[1]>>, <<"ZabbixHost", o.argd[1].hosts[1]>>}
      [] o.name = "get_by_id" /\ AllOk(o) /\ o.field \in {"ZabbixEvent", "ZabbixProblem"}
            /\ o.argd[2].hosts # <<>> ->
            {<<"ZabbixTrigger", o.argd[2]>>, <<"ZabbixHost", o.argd[2].hosts[1]>>}
            \cup (IF \/ ~Truthy(DictGet(o.argd[2], "triggerid"))
                     \/ ~Truthy(DictGet(o.argd[2].hosts[1], "hostid"))
                  THEN {} ELSE {<<o.field, o.argd[1]>>})
      [] OTHER -> {}

LacksIdentifier(c) == ~Truthy(DictGet(c[2], IdField[c[1]]))

\* C12: constructing an entity of any class from a record whose identifier
\* is missing or empty raises the construction error (KeyError) and yields
\* no entity, directly and inside the decorated get_by_id class methods
\* alike (the decorator does not contain it).
C12_NoIdentifierNoEntity ==
    (\E c \in Constructed(op) : LacksIdentifier(c))
        => op.exc = "KeyError" /\ op.ret = None

\* C12 witness: a decorated get_by_id whose remote call returned a record
\* without identifier ended with the construction error.
C12_Witness ==
    /\ op.name = "get_by_id"
    /\ op.field = "ZabbixProblem"
    /\ AllOk(op)
    /\ DictGet(op.argd[1], "eventid") = "''"
    /\ op.exc = "KeyError"

FactoryBulk == {"ZabbixProblemFactory.get_by_tag", "ZabbixProblemFactory.get_by_groupids"}

\* the number of entities an operation of the factory yielded
Yielded(o) == IF o.ref = {} THEN 0 ELSE Len(CHOOSE l \in o.ref : TRUE)

\* C13: get_by_tag and get_by_groupids of the problem factory with limit=N
\* yield zero entities when the remote call returns N or more raw records,
\* and exactly N-1 entities when it returns N-1 records.  Stated where no
\* remote call fails or comes back empty.
C13_LimitYieldsNothingOrAll ==
    op.name \in FactoryBulk /\ AllOk(op)
        => /\ op.exc = ""
           /\ (Len(op.argd) >= op.obj => Yielded(op) = 0)
           /\ (Len(op.argd) = op.obj - 1 => Yielded(op) = op.obj - 1)

\* C14: after Trigger.delete_dependencies, the next get_dependencies issues
\* a fresh trigger.get call, and what it returns is never a list cached
\* before the deletion: it is the list the server holds, or nothing.
C14_DeleteDependenciesForcesFreshGet ==
    [][op.name = "ZabbixTrigger.delete_dependencies"
         /\ op'.name = "ZabbixTrigger.get_dependencies"
        => /\ Count(op'.calls, {"trigger.get"}) = 1
           /\ op'.ref \in {{}, {zbx'.dependencies}}
           /\ (op'.ref # {} => ~Failed(op', "trigger.get"))]_vars

\* C14 witness: delete_dependencies has dropped a cached, non-empty list
\* that the server still holds (the remote deletion failed), and a read of
\* the dependencies can follow.
C14_Witness ==
    /\ op.name = "ZabbixTrigger.delete_dependencies"
    /\ Failed(op, "trigger.deleteDependencies")
    /\ op.exc = ""
    /\ z_trigger.dependencies = {}
    /\ zbx.dependencies # <<>>
    /\ steps < MaxOps

\* C15: the VIP classification of a Host is computed at most once: once a
\* read of is_vip has stored a classification (SVIP, VIP or none), every
\* later read returns it without consulting the macros or the server again,
\* even if the macros changed in between.
C15_VipComputedOnce ==
    [][op'.name = "ZabbixHost.is_vip" /\ _vip # None
        => op'.exc = "" /\ op'.ret = _vip /\ op'.calls = <<>>]_vars

\* the first macro of the collection q, in its order, whose cached name in
\* the heap is the name given: a set with that reference, or the empty set
FirstIn(q, heap, name) ==
    {q[k] : k \in {j \in 1..Len(q) :
        /\ heap[q[j]].macro = name
        /\ \A i \in 1..(j - 1) : heap[q[i]].macro # name}}

\* C16: Host.get_macro(name) returns the first Macro, in collection order,
\* of the Host's macro collection whose name equals the argument, and
\* returns an absent result without raising when no macro has that name.
\* Stated where every remote call the lookup makes returns its record.
C16_GetMacroFirstMatchOrAbsent ==
    [][op'.name = "ZabbixHost.get_macro" /\ AllOk(op')
        => /\ op'.exc = ""
           /\ op'.ref = FirstIn(_macros', z_macro', op'.arg)]_vars

\* C16 witness: two macros of the collection have the name looked up, and
\* the first of them was returned.
C16_Witness ==
    /\ op.name = "ZabbixHost.get_macro"
    /\ AllOk(op)
    /\ Len(_macros) = 2
    /\ z_macro[_macros[1]].macro = op.arg
    /\ z_macro[_macros[2]].macro = op.arg
    /\ op.ref = {_macros[1]}

\* the interfaces of the collection q whose cached main flag is 1
MainIn(q, heap) == {k \in 1..Len(q) : PyInt(heap[q[k]].main).ret = "1"}

\* C17: for a Host whose interface collection has exactly one interface
\* with main=1, get_ip() returns the IP of that interface, wherever it
\* stands in the collection.  Stated where every remote call that get_ip
\* makes returns its record.
C17_GetIpOfTheMainInterface ==
    [][op'.name = "ZabbixHost.get_ip" /\ AllOk(op')
         /\ Cardinality(MainIn(_interfaces', z_interface')) = 1
        => /\ op'.exc = ""
           /\ \A k \in MainIn(_interfaces', z_interface') :
                  op'.ret = z_interface'[_interfaces'[k]].ip]_vars

\* C17 witness: the main interface is the last of three, and get_ip returned
\* its address.
C17_Witness ==
    /\ op.name = "ZabbixHost.get_ip"
    /\ AllOk(op)
    /\ Len(_interfaces) = 3
    /\ MainIn(_interfaces, z_interface) = {3}
    /\ op.ret = z_interface[_interfaces[3]].ip
    /\ op.ret # z_interface[_interfaces[1]].ip

HostRead(o, f) == o.name = "ZabbixHost.read" /\ o.field = f
HostWrite(o, f) == o.name = "ZabbixHost.write" /\ o.field = f

\* C18: on a Host constructed from its identifier alone, reading name issues
\* exactly one host.get and, when the record comes back, caches all scalar
\* fields; a read of status that follows issues no call and returns the
\* cached status; setting status to 1 issues exactly one host.update; and
\* when that update succeeds, a read of status that follows returns 1 and
\* issues no call.
C18_NameStatusScenario ==
    [][/\ (HostRead(op', "name") /\ (\A f \in HostScalars : z_host[f] = None)
            => /\ op'.calls = <<"host.get">>
               /\ (AllOk(op') => \A g \in HostScalars : z_host'[g] = zbx.host[g]))
       /\ (HostRead(op, "name") /\ op.calls = <<"host.get">> /\ AllOk(op)
              /\ HostRead(op', "status")
            => /\ op'.calls = <<>>
               /\ op'.exc = ""
               /\ op'.ret = PyInt(z_host.status).ret)
       /\ (HostWrite(op', "status") /\ op'.arg = "1"
            => op'.calls = <<"host.update">>)
       /\ (HostWrite(op, "status") /\ op.arg = "1" /\ AllOk(op)
              /\ HostRead(op', "status")
            => /\ op'.calls = <<>>
               /\ op'.exc = ""
               /\ op'.ret = "1")
      ]_vars

\* C18 witness: status was set to 1 with success (the server holds 1) and
\* the read that followed returned 1 from the cache, without a call.
C18_Witness ==
    /\ HostRead(op, "status")
    /\ op.calls = <<>>
    /\ op.ret = "1"
    /\ z_host.status = "1"
    /\ zbx.host.status = "'1'"

\* the dict of an optional dict that is present
The(x) == CHOOSE d \in x : TRUE

\* the merge of the mapping value into the record prev
Merged(prev, value) ==
    [f \in DOMAIN prev \cup DOMAIN value |->
        IF f \in DOMAIN value THEN value[f] ELSE prev[f]]

Sent(o, m) == Count(o.calls, {m}) = 1 /\ ~Failed(o, m)

\* C19: setting Host.inventory to a partial mapping merges it into the
\* existing inventory record: every field the mapping does not name keeps
\* its previous value, and every field it names takes the new value, in the
\* local cache and in the record sent to host.update (the server stores
\* what is sent, so after an update that succeeded it holds the cached value
\* of every field of the record).
C19_InventorySetterMerges ==
    [][HostWrite(op', "inventory") /\ z_host.inventory # {}
        => /\ z_host'.inventory = {Merged(The(z_host.inventory), op'.argd)}
           /\ Count(op'.calls, {"host.update"}) = 1
           /\ (Sent(op', "host.update")
                => \A f \in DOMAIN The(z_host'.inventory) :
                        zbx'.inventory[f] = The(z_host'.inventory)[f])]_vars

\* C19 witness: the cache held a location the server did not; the setter
\* named only os, and the update that succeeded carried both the new os and
\* the cached location.
C19_Witness ==
    /\ HostWrite(op, "inventory")
    /\ Sent(op, "host.update")
    /\ DOMAIN op.argd = {"os"}
    /\ z_host.inventory = {[os |-> op.argd.os, location |-> "'old'"]}
    /\ zbx.inventory = [os |-> op.argd.os, location |-> "'old'"]

SetterNames == {"ZabbixHost.write", "ZabbixMacro.write"}

\* the remote update call of a setter
UpdateOf(o) == IF o.name = "ZabbixMacro.write" THEN "usermacro.update" ELSE "host.update"

\* the cached value of the field a setter writes, with Host dict h and
\* macro heap ms
CachedField(o, h, ms) ==
    IF o.name = "ZabbixMacro.write" THEN ms[o.obj][o.field] ELSE h[o.field]

\* C20: for every setter the remote update call completes, successfully
\* or as a contained failure, before the entity's cache is mutated: a
\* statement of a setter changes the cached value of the field only when
\* the update call of that setter has been issued by an earlier statement,
\* so that no state shows the new value with the update still to come.
C20_UpdateBeforeCacheMutation ==
    [][op'.name \in SetterNames
         /\ CachedField(op', z_host', z_macro') # CachedField(op', z_host, z_macro)
        => pc # "" /\ Count(op.calls, {UpdateOf(op')}) >= 1]_vars

\* the bulk retrievals of the host factory
HostBulk == {"ZabbixHostFactory.get_by_filter", "ZabbixHostFactory.get_by_name",
             "ZabbixHostFactory.get_by_group", "ZabbixHostFactory.search"}

\* C21: a bulk retrieval of the host factory (get_by_filter, get_by_name,
\* search, get_by_group) on a session that answers the get issues host.get
\* exactly once, raises nothing, and the sequence it returns, consumed to its
\* end, yields one entity for each record the call returned and then ends.
C21_BulkGetsOnceYieldsEach ==
    op.name \in HostBulk /\ op.arg = "ok"
        => /\ op.exc = ""
           /\ Count(op.calls, {"host.get"}) = 1
           /\ Yielded(op) = Len(op.argd)

\* the remote get a get_by_id class method issues first
GetById ==
    [ZabbixGroup |-> "hostgroup.get", ZabbixHost |-> "host.get",
     ZabbixTrigger |-> "trigger.get", ZabbixEvent |-> "event.get",
     ZabbixProblem |-> "problem.get"]

\* C22: a get_by_id lookup whose remote get returns no records returns an
\* absent value (None) to the caller and raises no exception.
C22_EmptyGetByIdReturnsAbsent ==
    op.name = "get_by_id" /\ Emptied(op, GetById[op.field])
        => op.exc = "" /\ op.ret = None

\* the relationship collections of a Host
Collections == {"macros", "interfaces", "groups"}

\* the collection materialized for a relationship
Materialized(f, ms, is, gs) ==
    CASE f = "macros" -> <<ms>> [] f = "interfaces" -> <<is>> [] OTHER -> <<gs>>

\* C23: once an access to a relationship collection of the Host (macros,
\* interfaces, groups) has returned the materialized collection, the next
\* access to it issues no remote call and returns the same collection,
\* whatever its size, the empty one included.
C23_RepeatedAccessCallsNothing ==
    [][op.name = "ZabbixHost.read" /\ op.field \in Collections /\ op.exc = ""
         /\ op'.name = "ZabbixHost.read" /\ op'.field = op.field
        => /\ op'.calls = <<>>
           /\ op'.exc = ""
           /\ Materialized(op.field, _macros', _interfaces', _groups')
                = Materialized(op.field, _macros, _interfaces, _groups)]_vars

\* the length of the raw list of a relationship in the Host's cache h, and
\* of the collection materialized for it
RawLen(f, h) == Len(CHOOSE l \in h[f] : TRUE)
MaterializedLen(f, ms, is) == IF f = "macros" THEN Len(ms) ELSE Len(is)

\* C24: when the raw list of macros or interfaces in the Host's cache and the
\* materialized collection differ in length, an access that returns leaves
\* the collection with the length of the raw list.
C24_LengthMismatchRematerializes ==
    [][op'.name = "ZabbixHost.read" /\ op'.field \in {"macros", "interfaces"}
         /\ op'.exc = "" /\ z_host[op'.field] # {}
         /\ MaterializedLen(op'.field, _macros, _interfaces) # RawLen(op'.field, z_host)
        => MaterializedLen(op'.field, _macros', _interfaces')
             = RawLen(op'.field, z_host')]_vars

\* C25: an access to groups on a Host that holds its identifier alone, on a
\* session that answers, issues one host.get, raises nothing and returns one
\* Group entity for each group the remote host belongs to.
C25_GroupsOfIdentityOnlyHost ==
    [][op'.name = "ZabbixHost.read" /\ op'.field = "groups" /\ AllOk(op')
         /\ "groups" \notin DOMAIN z_host /\ _groups = {}
        => /\ Count(op'.calls, {"host.get"}) = 1
           /\ op'.exc = ""
           /\ _groups' = {RemoteGroups}]_vars

\* the fields of a cache that hold a collection ({} when not cached)
CollectionFields == {"inventory", "macros", "interfaces", "groups", "dependencies"}

\* the names of the fields a cache d holds (the identifier of a Macro or an
\* Interface is a number and always held)
Cached(d) ==
    {f \in DOMAIN d :
        CASE f \in CollectionFields -> d[f] # {}
          [] f \in {"hostmacroid", "interfaceid"} -> TRUE
          [] OTHER -> d[f] # None}

\* C26: an operation that issues a remote get (a hydration) removes no field
\* from a local cache: the fields the Host, each Macro, each Interface, the
\* Trigger and the Event hold after it include those they held before.
C26_HydrationKeepsFields ==
    [][Count(op'.calls, GetMethods) >= 1
        => /\ Cached(z_host) \subseteq Cached(z_host')
           /\ Cached(z_trigger) \subseteq Cached(z_trigger')
           /\ Cached(z_event) \subseteq Cached(z_event')
           /\ \A m \in 1..Len(z_macro) :
                Cached(z_macro[m]) \subseteq Cached(z_macro'[m])
           /\ \A i \in 1..Len(z_interface) :
                Cached(z_interface[i]) \subseteq Cached(z_interface'[i])]_vars

\* C26 witness: a hydration of the Host has returned, on a cache that held
\* the inventory and some scalar fields before it and holds them still.
C26_Witness ==
    /\ op.name = "ZabbixHost.read" /\ op.field = "name"
    /\ Count(op.calls, {"host.get"}) = 1 /\ AllOk(op) /\ op.exc = ""
    /\ z_host.inventory # {}
    /\ z_host.name # None

\* the raw interface records of the Host's cache h, the dicts being on heap
RawInterfaces(h, heap) ==
    IF h.interfaces = {} THEN <<>>
    ELSE LET l == CHOOSE q \in h.interfaces : TRUE
         IN  [k \in 1..Len(l) |-> heap[l[k]]]

\* C27: a setter applied to an Interface materialized from the Host leaves
\* the raw interface records of the Host's cache as they were.
C27_ChildSetterKeepsHostRecord ==
    [][op'.name = "ZabbixInterface.write"
         /\ (\E k \in 1..Len(_interfaces) : _interfaces[k] = op'.obj)
        => RawInterfaces(z_host', z_interface') = RawInterfaces(z_host, z_interface)]_vars

\* a trigger record that has its identifier and a host with its identifier
Complete(trigger) ==
    /\ Truthy(DictGet(trigger, "triggerid"))
    /\ trigger.hosts # <<>>
    /\ Truthy(DictGet(trigger.hosts[1], "hostid"))

\* C28: on a session that answers, the trigger factory produces a Trigger
\* with one trigger.get more than the retrieval itself (the one that
\* resolves its Host), and the problem factory produces each Problem with one
\* event.get (the one that resolves its Trigger and Host together).
C28_FactoryMakeResolvesOwner ==
    /\ op.name = "ZabbixTriggerFactory.get_by_id" /\ op.arg = "ok"
         /\ Complete(op.argd[1])
        => /\ op.exc = "" /\ op.ret = "ZabbixTrigger"
           /\ Count(op.calls, {"trigger.get"}) = 2
    /\ op.name \in FactoryBulk /\ AllOk(op) /\ Len(op.argd) < op.obj
        => /\ op.exc = "" /\ Yielded(op) = Len(op.argd)
           /\ Count(op.calls, {"event.get"}) = Len(op.argd)

\* C29: a bulk retrieval of the host factory on a session whose host.get
\* raises the remote-API exception raises nothing and yields no entity.
C29_FailedBulkReturnsAbsent ==
    op.name \in HostBulk /\ op.arg = "fail" => op.exc = "" /\ Yielded(op) = 0

\* C30: Trigger.delete_dependencies issues exactly one remote
\* trigger.deleteDependencies call and raises no exception, whether or not
\* a dependency list is cached when it is called.
C30_DeleteDependenciesCallsOnce ==
    op.name = "ZabbixTrigger.delete_dependencies"
        => op.exc = "" /\ Count(op.calls, {"trigger.deleteDependencies"}) = 1

\* the fields a cached record d holds agree with the remote record r (a
\* value sent as a number is stored remotely as the string of it)
Agrees(d, r) ==
    \A f \in (DOMAIN d \cap DOMAIN r) \ {"hostmacroid", "interfaceid"} :
        d[f] # None => Wire(d[f]) = r[f]

\* every cache of the Host h, of the Macros ms and of the Interfaces is
\* agrees with the remote records z, and the macro collection ml of the Host,
\* once materialized, holds every macro the remote host has
Coherent(h, ms, is, ml, z) ==
    /\ Agrees([f \in HostScalars |-> h[f]], z.host)
    /\ h.inventory \in {{}, {z.inventory}}
    /\ \A m \in 1..Len(ms) :
          LET k == Index(z.macros, "hostmacroid", ms[m].hostmacroid)
          IN  k # 0 /\ Agrees(ms[m], z.macros[k])
    /\ \A i \in 1..Len(is) :
          LET k == Index(z.interfaces, "interfaceid", is[i].interfaceid)
          IN  k # 0 /\ Agrees(is[i], z.interfaces[k])
    /\ h.macros # {} =>
          \A k \in 1..Len(z.macros) :
              \E j \in 1..Len(ml) : ms[ml[j]].hostmacroid = z.macros[k].hostmacroid

\* C31: cache coherence.  An operation (a read, a setter, an upsert of a
\* macro) none of whose remote calls fails or comes back empty, started
\* where the caches agree with the remote records, leaves them agreeing:
\* every cached field has the remote value, and the macro collection of the
\* Host holds every macro of the remote host.
C31_CacheCoherence ==
    [][Coherent(z_host, z_macro, z_interface, _macros, zbx) /\ AllOk(op')
        => Coherent(z_host', z_macro', z_interface', _macros', zbx')]_vars

=============================================================================
